---- MODULE Spec2Model ----
(***************************************************************************)
(* Term clustering, canonical naming and confidence scoring of the         *)
(* financial pattern discovery pipeline                                    *)
(* (financial_pattern_discovery/clustering.py, canonical.py,               *)
(* fuzzy_matcher.py, main.py).                                             *)
(*                                                                         *)
(* Terms and names are character strings.  Regular expressions of the      *)
(* source are sequences of atoms interpreted by MatchFrom on the           *)
(* characters of the text.                                                 *)
(***************************************************************************)
EXTENDS Integers, Sequences, FiniteSets, TLC

VARIABLES
    pc,               \* position of process_files
    all_terms,        \* the extracted terms handed to cluster_terms
    fuzzy_threshold,  \* ProcessingConfig.fuzzy_threshold
    class_terms,      \* _separate_terms_by_class: <<[letter, terms]>> in first-seen order
    general_terms,    \* _separate_terms_by_class: the terms without identifier
    next_class,       \* _class_aware_clustering: index of the next class partition
    clusters,         \* cluster records; the cluster id is the index minus one
    cluster_id,       \* _class_aware_clustering: the next cluster id
    canonical_names,  \* canonical name of each cluster, same indexing as clusters
    mappings,         \* records returned by create_mappings
    log               \* log records emitted so far

vars == <<pc, all_terms, fuzzy_threshold, class_terms,
          general_terms, next_class, clusters, cluster_id, canonical_names,
          mappings, log>>

-----------------------------------------------------------------------------
(* Characters and strings                                                  *)

LowerSeq == "abcdefghijklmnopqrstuvwxyz"
UpperSeq == "ABCDEFGHIJKLMNOPQRSTUVWXYZ"
DigitSeq == "0123456789"

CharsOf(s) == {SubSeq(s, i, i) : i \in 1..Len(s)}

LowerLetters == CharsOf(LowerSeq)
UpperLetters == CharsOf(UpperSeq)
Digits == CharsOf(DigitSeq)

\* \w of Python's re on str: letters, digits, underscore, and letters outside ASCII
NonAsciiLetters == {"é"}
WordChars == LowerLetters \cup UpperLetters \cup Digits \cup {"_"} \cup NonAsciiLetters

\* \s, and what str.split() and str.strip() treat as white space
SpaceChars == {" ", "\t"}

Ch(s, p) == SubSeq(s, p, p)

Min(S) == CHOOSE m \in S : \A o \in S : m <= o
Max(S) == CHOOSE m \in S : \A o \in S : m >= o

LowerChar(c) ==
    IF c \in UpperLetters
    THEN LET i == CHOOSE j \in 1..Len(UpperSeq) : Ch(UpperSeq, j) = c
         IN Ch(LowerSeq, i)
    ELSE c

\* the two halves of a string of two characters or more; the conversions
\* below work on the halves, which keeps their evaluation shallow
LeftHalf(s) == SubSeq(s, 1, Len(s) \div 2)
RightHalf(s) == SubSeq(s, Len(s) \div 2 + 1, Len(s))

RECURSIVE lower(_)
\* str.lower()
lower(s) ==
    IF Len(s) <= 1 THEN LowerChar(s) ELSE lower(LeftHalf(s)) \o lower(RightHalf(s))

\* the k-th smallest member of a set of positions
KthOf(ps, k) == CHOOSE i \in ps : Cardinality({j \in ps : j < i}) = k - 1

\* the maximal runs of characters of s that are in cs (inside) or that are
\* not in cs (~inside), in order
Runs(s, cs, inside) ==
    LET InRun(ch) == (ch \in cs) = inside
        starts == {i \in 1..Len(s) :
                      InRun(Ch(s, i)) /\ (i = 1 \/ ~InRun(Ch(s, i - 1)))}
        EndOf(i) == Min({j \in i..Len(s) : j = Len(s) \/ ~InRun(Ch(s, j + 1))})
    IN [k \in 1..Cardinality(starts) |->
           SubSeq(s, KthOf(starts, k), EndOf(KthOf(starts, k)))]

\* str.split(): the maximal runs of non-space characters
split(s) == Runs(s, SpaceChars, FALSE)

\* str.split(sep) for a one-character separator: the pieces between the
\* occurrences of sep, empty pieces kept
split_on(s, sep) ==
    LET seps == {i \in 1..Len(s) : Ch(s, i) = sep}
        n == Cardinality(seps)
        SepAt(k) == IF k = 0 THEN 0 ELSE IF k = n + 1 THEN Len(s) + 1 ELSE KthOf(seps, k)
    IN [k \in 1..(n + 1) |-> SubSeq(s, SepAt(k - 1) + 1, SepAt(k) - 1)]

RECURSIVE join(_, _)
\* sep.join(parts)
join(parts, sep) ==
    IF parts = <<>> THEN ""
    ELSE IF Len(parts) = 1 THEN parts[1]
    ELSE parts[1] \o sep \o join(Tail(parts), sep)

RECURSIVE replace_char(_, _, _)
\* str.replace(old, new) for a one-character old
replace_char(s, old, new) ==
    IF Len(s) <= 1 THEN (IF s = old THEN new ELSE s)
    ELSE replace_char(LeftHalf(s), old, new) \o replace_char(RightHalf(s), old, new)

RECURSIVE lstrip(_, _)
lstrip(s, cs) == IF s # "" /\ Head(s) \in cs THEN lstrip(Tail(s), cs) ELSE s

RECURSIVE rstrip(_, _)
rstrip(s, cs) ==
    IF s # "" /\ Ch(s, Len(s)) \in cs THEN rstrip(SubSeq(s, 1, Len(s) - 1), cs) ELSE s

\* str.strip(chars)
strip(s, cs) == rstrip(lstrip(s, cs), cs)

\* needle in haystack
contains(haystack, needle) ==
    \E p \in 1..(Len(haystack) - Len(needle) + 1) :
        SubSeq(haystack, p, p + Len(needle) - 1) = needle

startswith(s, prefix) ==
    Len(prefix) <= Len(s) /\ SubSeq(s, 1, Len(prefix)) = prefix

SeqToSet(q) == {q[i] : i \in DOMAIN q}

-----------------------------------------------------------------------------
(* Regular expressions: a pattern is a sequence of atoms                   *)

B == [k |-> "b"]                      \* \b
W1 == [k |-> "ws1"]                   \* \s+
W0 == [k |-> "ws0"]                   \* \s*
L(w) == [k |-> "lit", s |-> w]        \* literal text
A(ws) == [k |-> "alt", opts |-> ws]   \* (w1|w2|...), alternatives in order
C(cs) == [k |-> "cls", cs |-> cs]     \* ([...]), one character of a class
O(w) == [k |-> "opt", s |-> w]        \* w?

IsWordAt(s, p) == p >= 1 /\ p <= Len(s) /\ Ch(s, p) \in WordChars

\* \b holds between the characters p-1 and p
Boundary(s, p) == IsWordAt(s, p - 1) # IsWordAt(s, p)

LitAt(s, p, w) ==
    p + Len(w) - 1 <= Len(s) /\ SubSeq(s, p, p + Len(w) - 1) = w

RECURSIVE SkipWs(_, _)
SkipWs(s, p) ==
    IF p <= Len(s) /\ Ch(s, p) \in SpaceChars THEN SkipWs(s, p + 1) ELSE p

RECURSIVE MatchFrom(_, _, _, _)
\* the positions where a match of the atoms i.. of pat that starts at p can end
MatchFrom(pat, i, s, p) ==
    IF i > Len(pat) THEN {p}
    ELSE LET a == pat[i] IN
         CASE a.k = "b" ->
                IF Boundary(s, p) THEN MatchFrom(pat, i + 1, s, p) ELSE {}
           [] a.k = "lit" ->
                IF LitAt(s, p, a.s)
                THEN MatchFrom(pat, i + 1, s, p + Len(a.s)) ELSE {}
           [] a.k = "ws1" ->
                UNION {MatchFrom(pat, i + 1, s, q) : q \in (p + 1)..SkipWs(s, p)}
           [] a.k = "ws0" ->
                UNION {MatchFrom(pat, i + 1, s, q) : q \in p..SkipWs(s, p)}
           [] a.k = "alt" ->
                UNION {IF LitAt(s, p, a.opts[j])
                       THEN MatchFrom(pat, i + 1, s, p + Len(a.opts[j]))
                       ELSE {} : j \in DOMAIN a.opts}
           [] a.k = "cls" ->
                IF p <= Len(s) /\ Ch(s, p) \in a.cs
                THEN MatchFrom(pat, i + 1, s, p + 1) ELSE {}
           [] a.k = "opt" ->
                MatchFrom(pat, i + 1, s, p)
                \cup (IF LitAt(s, p, a.s)
                      THEN MatchFrom(pat, i + 1, s, p + Len(a.s)) ELSE {})

MatchesAt(pat, s, p) == MatchFrom(pat, 1, s, p) # {}

\* re.search(pat, s) is not None
re_search(pat, s) == \E p \in 1..(Len(s) + 1) : MatchesAt(pat, s, p)

\* the start of the leftmost match, 0 when there is none
MatchStart(pat, s) ==
    LET ps == {p \in 1..(Len(s) + 1) : MatchesAt(pat, s, p)}
    IN IF ps = {} THEN 0 ELSE Min(ps)

\* index of the capturing atom (the first alt or cls) of pat
GroupIndex(pat) == Min({i \in DOMAIN pat : pat[i].k \in {"alt", "cls"}})

\* match.group(1) of the leftmost match: the first alternative, in the
\* pattern's order, with which the rest of the pattern matches
group1(pat, s) ==
    LET p == MatchStart(pat, s)
        g == GroupIndex(pat)
        qs == MatchFrom(SubSeq(pat, 1, g - 1), 1, s, p)
        a == pat[g]
    IN IF a.k = "cls"
       THEN LET q == CHOOSE q \in qs :
                        /\ q <= Len(s) /\ Ch(s, q) \in a.cs
                        /\ MatchFrom(pat, g + 1, s, q + 1) # {}
            IN Ch(s, q)
       ELSE LET ok(j) == \E q \in qs :
                            /\ LitAt(s, q, a.opts[j])
                            /\ MatchFrom(pat, g + 1, s, q + Len(a.opts[j])) # {}
            IN a.opts[Min({j \in DOMAIN a.opts : ok(j)})]

-----------------------------------------------------------------------------
(* clustering.py                                                           *)

ClassLetters == {"a", "b", "c", "d", "e", "f"}

\* the pattern without its word boundaries
class_pattern_unbounded == <<L("class"), W1, C(ClassLetters)>>

\* re.compile(r'\bclass\s+([a-f])\b', re.IGNORECASE): the flag is modelled by
\* matching against the lowercased term
class_pattern == <<B, L("class"), W1, C(ClassLetters), B>>

\* position of the partition of a letter in the ordered dict, 0 when absent
IndexOfLetter(ct, letter) ==
    LET is == {i \in DOMAIN ct : ct[i].letter = letter}
    IN IF is = {} THEN 0 ELSE Min(is)

RECURSIVE SeparateAcc(_, _, _)
SeparateAcc(terms, ct, gt) ==
    IF terms = <<>> THEN [class_terms |-> ct, general_terms |-> gt]
    ELSE LET term == Head(terms)
             t == lower(term)
         IN IF re_search(class_pattern, t)
            THEN LET class_letter == group1(class_pattern, t)
                     i == IndexOfLetter(ct, class_letter)
                 IN IF i = 0
                    THEN SeparateAcc(Tail(terms),
                            Append(ct, [letter |-> class_letter, terms |-> <<term>>]), gt)
                    ELSE SeparateAcc(Tail(terms),
                            [ct EXCEPT ![i].terms = Append(@, term)], gt)
            ELSE SeparateAcc(Tail(terms), ct, Append(gt, term))

\* _separate_terms_by_class, lines 100-102: the summary logged for every input
SeparatedTerms == [level |-> "info", msg |-> "Separated terms", what |-> ""]

\* the partitioner forgetting the terms without a class letter
_separate_terms_by_class_lossy(terms) ==
    [SeparateAcc(terms, <<>>, <<>>) EXCEPT !.general_terms = <<>>]

\* _separate_terms_by_class (lines 83-104)
_separate_terms_by_class(terms) == SeparateAcc(terms, <<>>, <<>>)

\* remove exact duplicates while preserving order (cluster_terms, lines 34-40)
RECURSIVE DedupAcc(_, _)
DedupAcc(terms, acc) ==
    IF terms = <<>> THEN acc
    ELSE IF Head(terms) \in SeqToSet(acc)
         THEN DedupAcc(Tail(terms), acc)
         ELSE DedupAcc(Tail(terms), Append(acc, Head(terms)))

unique_terms_of(terms) == DedupAcc(terms, <<>>)

\* the cluster record of one term on its own; 'class' is set by the caller, if at all
SingletonCluster(term) ==
    [terms |-> <<term>>, count |-> 1, top_features |-> <<term>>, class |-> "absent"]

SingletonClusters(terms) == [i \in DOMAIN terms |-> SingletonCluster(terms[i])]

\* TfidfVectorizer's default tokenizer on the lowercased text: (?u)\b\w\w+\b,
\* the runs of two word characters or more
word_tokens(s) ==
    SelectSeq(Runs(lower(s), WordChars, TRUE), LAMBDA w : Len(w) >= 2)

RECURSIVE FlattenTokens(_)
FlattenTokens(terms) ==
    IF terms = <<>> THEN <<>> ELSE word_tokens(Head(terms)) \o FlattenTokens(Tail(terms))

TopN == 10

\* the features a cluster's top_features can name: the tokens of its terms.
\* np.argsort(mean_scores)[-10:] keeps at most ten of them.
FeatureWords(terms) ==
    LET ws == DedupAcc(FlattenTokens(terms), <<>>)
    IN SubSeq(ws, 1, IF Len(ws) < TopN THEN Len(ws) ELSE TopN)

\* n_clusters of _cluster_similar_terms (lines 166-170)
n_clusters_of_third(terms, group_name) ==
    LET n == Len(terms)
        third == IF n \div 3 > 2 THEN n \div 3 ELSE 2
    IN IF n < third THEN n ELSE third

n_clusters_of(terms, group_name) ==
    LET n == Len(terms)
        half == IF n \div 2 > 2 THEN n \div 2 ELSE 2
        third == IF n \div 3 > 2 THEN n \div 3 ELSE 2
    IN IF startswith(group_name, "class_")
       THEN IF n < half THEN n ELSE half
       ELSE IF n < third THEN n ELSE third

\* What scikit-learn can answer for a partition: TfidfVectorizer or KMeans
\* raises, or fit_predict labels every term with one of 0..n_clusters-1 and
\* the mean TF-IDF weights leave the cluster's tokens (or nothing) positive.
NoCall == [raises |-> FALSE, labels |-> <<>>, top |-> "none"]

SklearnOutcomes(terms, group_name) ==
    IF Len(terms) <= 2 THEN {NoCall}
    ELSE {[raises |-> TRUE, labels |-> <<>>, top |-> "none"]}
         \cup {[raises |-> FALSE, labels |-> ls, top |-> tp] :
                 ls \in [1..Len(terms) -> 0..(n_clusters_of(terms, group_name) - 1)],
                 tp \in {"none", "words"}}

\* the elements of a set of small integers in ascending order: the order in
\* which CPython iterates set(cluster_labels)
RECURSIVE Ascending(_)
Ascending(S) == IF S = {} THEN <<>> ELSE <<Min(S)>> \o Ascending(S \ {Min(S)})

\* the selection that misses the first term of the partition
SelectByLabelAfterFirst(terms, labels, id, i) ==
    LET js == Ascending({j \in i..Len(terms) : labels[j] = id /\ j > 1})
    IN [k \in DOMAIN js |-> terms[js[k]]]

RECURSIVE SelectByLabel(_, _, _, _)
\* [terms[i] for i, label in enumerate(cluster_labels) if label == cluster_id]
SelectByLabel(terms, labels, id, i) ==
    IF i > Len(terms) THEN <<>>
    ELSE (IF labels[i] = id THEN <<terms[i]>> ELSE <<>>)
         \o SelectByLabel(terms, labels, id, i + 1)

FailedToCluster(group_name) ==
    [level |-> "warning", msg |-> "Failed to cluster", what |-> group_name]

\* the exception of scikit-learn costing the partition its clusters
_cluster_similar_terms_fatal(terms, group_name, outcome) ==
    IF Len(terms) <= 2
    THEN [clusters |-> SingletonClusters(terms), logged |-> <<>>]
    ELSE [clusters |-> <<>>, logged |-> <<FailedToCluster(group_name)>>]

\* the shortcut taken up to three terms, as cluster_terms takes its own
_cluster_similar_terms_upto3(terms, group_name, outcome) ==
    [clusters |-> SingletonClusters(terms),
     logged |-> IF Len(terms) > 3 /\ outcome.raises
                THEN <<FailedToCluster(group_name)>> ELSE <<>>]

\* _cluster_similar_terms: the clusters of one partition and what it logs
_cluster_similar_terms(terms, group_name, outcome) ==
    IF Len(terms) <= 2
    THEN [clusters |-> SingletonClusters(terms), logged |-> <<>>]
    ELSE IF outcome.raises
    THEN [clusters |-> SingletonClusters(terms),
          logged |-> <<FailedToCluster(group_name)>>]
    ELSE LET ids == Ascending({outcome.labels[i] : i \in DOMAIN outcome.labels})
             cluster(id) ==
                 LET cluster_terms == SelectByLabel(terms, outcome.labels, id, 1)
                 IN [terms |-> cluster_terms,
                     count |-> Len(cluster_terms),
                     top_features |-> IF outcome.top = "words"
                                      THEN FeatureWords(cluster_terms) ELSE <<>>,
                     class |-> "absent"]
         IN [clusters |-> [j \in DOMAIN ids |-> cluster(ids[j])], logged |-> <<>>]

WithClass(cs, class_letter) == [j \in DOMAIN cs |-> [cs[j] EXCEPT !.class = class_letter]]

\* one iteration of the loop over class_terms in _class_aware_clustering
ClassPartitionClusters(letter, terms, outcome) ==
    IF Len(terms) = 1
    THEN [clusters |-> <<[terms |-> terms, count |-> 1, top_features |-> <<terms[1]>>,
                          class |-> letter]>>,
          logged |-> <<>>]
    ELSE LET r == _cluster_similar_terms(terms, "class_" \o letter, outcome)
         IN [clusters |-> WithClass(r.clusters, letter), logged |-> r.logged]

\* the general partition of _class_aware_clustering
GeneralPartitionClusters(terms, outcome) ==
    IF terms = <<>>
    THEN [clusters |-> <<>>, logged |-> <<>>]
    ELSE LET r == _cluster_similar_terms(terms, "general", outcome)
         IN [clusters |-> WithClass(r.clusters, "None"), logged |-> r.logged]

ShortcutLimit == 3

-----------------------------------------------------------------------------
(* canonical.py                                                            *)

\* CanonicalNameGenerator.junk_canonical_names (lines 20-43)
junk_canonical_names ==
    {"net", "total", "gross", "current", "aggregate", "outstanding",
     "available", "required", "applicable", "eligible", "related",
     "amount", "amounts", "value", "values", "sum", "sums",
     "beginning", "ending", "period", "date", "time",
     "start", "end", "initial", "final", "opening", "closing",
     "other", "additional", "miscellaneous", "various", "general",
     "standard", "regular", "normal", "special", "extra",
     "a", "b", "c", "d", "e", "f", "i", "ii", "iii"}

always_junk ==
    {"net", "total", "gross", "current", "amount", "value", "sum",
     "beginning", "ending", "period", "date", "time", "other", "additional",
     "a", "b", "c", "d", "e", "f", "i", "ii", "iii"}

meaningful_single_terms ==
    {"interest", "principal", "balance", "fee", "payment",
     "income", "expense", "cost", "rate", "factor", "account",
     "fund", "pool", "reserve", "trust", "servicing", "trustee"}

very_generic ==
    {"amount", "total", "net", "gross", "current", "value", "sum",
     "beginning", "ending", "period", "date", "time"}

\* _is_junk_canonical_name (lines 64-108)
_is_junk_canonical_name(canonical_name) ==
    LET JunkParts(parts) ==
            LET non_junk_parts ==
                    {j \in DOMAIN parts : parts[j] \notin junk_canonical_names}
            IN IF \E j \in DOMAIN parts : startswith(parts[j], "class_") THEN FALSE
               ELSE IF \E j \in DOMAIN parts : startswith(parts[j], "tranche_") THEN FALSE
               ELSE IF Len(parts) = 1 /\ parts[1] \in always_junk THEN TRUE
               ELSE IF Len(parts) = 1 /\ parts[1] \in meaningful_single_terms THEN FALSE
               ELSE IF \A j \in DOMAIN parts : parts[j] \in very_generic THEN TRUE
               \* len(non_junk_parts) < len(parts) * 0.3
               ELSE IF 10 * Cardinality(non_junk_parts) < 3 * Len(parts) THEN TRUE
               ELSE FALSE
    IN IF canonical_name = "" \/ canonical_name = "unknown_cluster" THEN TRUE
       ELSE JunkParts(split_on(canonical_name, "_"))

RECURSIVE KeepWordChars(_)
\* re.sub(r'[^\w_]', '', s)
KeepWordChars(s) ==
    IF Len(s) <= 1 THEN (IF s \in WordChars THEN s ELSE "")
    ELSE KeepWordChars(LeftHalf(s)) \o KeepWordChars(RightHalf(s))

RECURSIVE CollapseUnderscores(_)
\* re.sub(r'_+', '_', s)
CollapseUnderscores(s) ==
    LET \* a run of underscores cut by the halving is collapsed at the seam
        Joined(l, r) ==
            IF Ch(l, Len(l)) = "_" /\ Head(r) = "_" THEN l \o Tail(r) ELSE l \o r
    IN IF Len(s) < 2 THEN s
       ELSE Joined(CollapseUnderscores(LeftHalf(s)), CollapseUnderscores(RightHalf(s)))

\* _clean_canonical_name (lines 510-524)
_clean_canonical_name(term) ==
    strip(CollapseUnderscores(KeepWordChars(replace_char(lower(term), " ", "_"))), {"_"})

financial_keywords ==
    <<"class", "interest", "balance", "fee", "payment", "amount", "account", "date">>

\* the score _select_best_term gives one term (lines 484-503)
BestTermScore(term) ==
    LET Score(term_lower, word_count) ==
            LET base == IF 50 - Len(term) > 0 THEN 50 - Len(term) ELSE 0
                keywords == Cardinality({j \in DOMAIN financial_keywords :
                                            contains(term_lower, financial_keywords[j])})
            IN base + 20 * keywords
               - (IF Len(term) > 80 THEN 30 ELSE 0)
               - (IF word_count > 8 THEN word_count * 3 ELSE 0)
    IN Score(lower(term), Len(split(term)))

\* the last key with the highest value
LastMax(keys, vals) ==
    keys[Max({i \in DOMAIN keys : \A j \in DOMAIN keys : vals[i] >= vals[j]})]

\* max(d, key=d.get) over the keys in insertion order, vals[i] being the
\* value of keys[i]: the first key with the highest value
FirstMax(keys, vals) ==
    keys[Min({i \in DOMAIN keys : \A j \in DOMAIN keys : vals[i] >= vals[j]})]

\* _select_best_term (lines 478-508); term_scores is keyed by term
_select_best_term(terms) ==
    LET Best(keys) == FirstMax(keys, [i \in DOMAIN keys |-> BestTermScore(keys[i])])
    IN Best(unique_terms_of(terms))

RECURSIVE LongWordsOf(_)
\* the words of more than two characters of all terms, in order (lines 175-179)
LongWordsOf(terms) ==
    IF terms = <<>> THEN <<>>
    ELSE SelectSeq(split(lower(Head(terms))), LAMBDA w : Len(w) > 2)
         \o LongWordsOf(Tail(terms))

CountOf(q, x) == Cardinality({i \in DOMAIN q : q[i] = x})

RECURSIVE InsertDesc(_, _)
\* x inserted after every element whose key n is not smaller
InsertDesc(sorted, x) ==
    IF sorted = <<>> THEN <<x>>
    ELSE IF Head(sorted).n >= x.n
         THEN <<Head(sorted)>> \o InsertDesc(Tail(sorted), x)
         ELSE <<x>> \o sorted

RECURSIVE SortDescAcc(_, _)
SortDescAcc(q, acc) ==
    IF q = <<>> THEN acc ELSE SortDescAcc(Tail(q), InsertDesc(acc, Head(q)))

\* sorted(q, key=lambda x: x.n, reverse=True) of records [w, n]: stable
SortDesc(q) == SortDescAcc(q, <<>>)

WordsOf(scored) == [i \in DOMAIN scored |-> scored[i].w]

\* _find_common_words (lines 171-184)
_find_common_words(terms) ==
    LET Counted(occurrences, words) ==
            [i \in DOMAIN words |->
                [w |-> words[i], n |-> CountOf(occurrences, words[i])]]
        \* count >= max(1, len(terms) * 0.3)
        Common(counted) ==
            SelectSeq(counted, LAMBDA c : c.n >= 1 /\ 10 * c.n >= 3 * Len(terms))
        CommonWords(occurrences) ==
            WordsOf(SortDesc(Common(Counted(occurrences, unique_terms_of(occurrences)))))
    IN CommonWords(LongWordsOf(terms))

RECURSIVE PhraseAtoms(_)
\* w1\s+w2\s+...\s+wn
PhraseAtoms(ws) ==
    IF Len(ws) = 1 THEN <<L(ws[1])>> ELSE <<L(ws[1]), W1>> \o PhraseAtoms(Tail(ws))

\* \bw1\s+...\s+wn\b
PhraseB(ws) == <<B>> \o PhraseAtoms(ws) \o <<B>>

\* \bw1\s+...\s+wn
Phrase(ws) == <<B>> \o PhraseAtoms(ws)

\* \b(w1|w2|...)\b
AnyWordB(ws) == <<B, A(ws), B>>

\* the name of the first entry of a pattern table that matches, "" when none does
RECURSIVE LastMatchName(_, _)
\* the name of the last entry that matches
LastMatchName(table, text) ==
    IF table = <<>> THEN ""
    ELSE IF LastMatchName(Tail(table), text) # "" THEN LastMatchName(Tail(table), text)
    ELSE IF re_search(Head(table).pat, text) THEN Head(table).name
    ELSE ""

RECURSIVE FirstMatchName(_, _)
FirstMatchName(table, text) ==
    IF table = <<>> THEN ""
    ELSE IF re_search(Head(table).pat, text) THEN Head(table).name
    ELSE FirstMatchName(Tail(table), text)

\* the value of the first entry that matches: its replacement, or group(1)
\* of its match when the entry has none
RECURSIVE FirstMatchValue(_, _)
FirstMatchValue(table, text) ==
    IF table = <<>> THEN ""
    ELSE IF re_search(Head(table).pat, text)
         THEN IF Head(table).name # "" THEN Head(table).name
              ELSE group1(Head(table).pat, text)
    ELSE FirstMatchValue(Tail(table), text)

\* _extract_concept_components, lines 248-266
direct_financial_patterns ==
    <<[pat |-> PhraseB(<<"backup", "servicing", "fee">>), name |-> "backup_servicing_fee"],
      [pat |-> PhraseB(<<"backup", "servicer", "fee">>), name |-> "backup_servicer_fee"],
      [pat |-> PhraseB(<<"servicing", "fee">>), name |-> "servicing_fee"],
      [pat |-> PhraseB(<<"servicing", "fees">>), name |-> "servicing_fees"],
      [pat |-> PhraseB(<<"backup", "trustee", "fee">>), name |-> "backup_trustee_fee"],
      [pat |-> <<B, L("trustee"), W1, L("fee"), O("s"), B>>, name |-> "trustee_fees"],
      [pat |-> PhraseB(<<"indenture", "trustee", "fee">>), name |-> "indenture_trustee_fee"],
      [pat |-> PhraseB(<<"owner", "trustee", "fee">>), name |-> "owner_trustee_fee"],
      [pat |-> PhraseB(<<"available", "funds">>), name |-> "available_funds"],
      [pat |-> PhraseB(<<"reserve", "fund">>), name |-> "reserve_fund"],
      [pat |-> PhraseB(<<"pool", "factor">>), name |-> "pool_factor"],
      [pat |-> PhraseB(<<"overcollateralization">>), name |-> "overcollateralization"]>>

\* r'class\s*([a-f])\b' and r'tranche\s*([a-f])\b' (lines 277, 288, 299, 564)
namer_class_pattern == <<L("class"), W0, C(ClassLetters), B>>
namer_tranche_pattern == <<L("tranche"), W0, C(ClassLetters), B>>

RECURSIVE LettersOf(_, _)
\* the letter the pattern finds in each term that has one, in term order
LettersOf(pat, terms) ==
    IF terms = <<>> THEN <<>>
    ELSE LET Letter(text) ==
                 IF re_search(pat, text) THEN <<group1(pat, text)>> ELSE <<>>
         IN Letter(lower(Head(terms))) \o LettersOf(pat, Tail(terms))

\* lines 275-294: the only letter, or the first most frequent one
ClassComponent(terms) ==
    LET MostFrequent(found, keys) ==
            IF keys = <<>> THEN ""
            ELSE IF Len(keys) = 1 THEN keys[1]
            ELSE FirstMax(keys, [j \in DOMAIN keys |-> CountOf(found, keys[j])])
        Letter(found) == MostFrequent(found, unique_terms_of(found))
    IN Letter(LettersOf(namer_class_pattern, terms))

\* lines 296-304: set only when exactly one letter is found
TrancheComponent(terms) ==
    LET Only(keys) == IF Len(keys) = 1 THEN keys[1] ELSE ""
    IN Only(unique_terms_of(LettersOf(namer_tranche_pattern, terms)))

\* lines 307-320
amount_type_patterns ==
    <<[pat |-> PhraseB(<<"carryover", "shortfall">>), name |-> "carryover_shortfall"],
      [pat |-> PhraseB(<<"interest", "carryover", "shortfall">>),
       name |-> "interest_carryover_shortfall"],
      [pat |-> PhraseB(<<"principal", "carryover", "shortfall">>),
       name |-> "principal_carryover_shortfall"],
      [pat |-> PhraseB(<<"interest", "distributable", "amount">>),
       name |-> "interest_distributable_amount"],
      [pat |-> PhraseB(<<"principal", "distributable", "amount">>),
       name |-> "principal_distributable_amount"],
      [pat |-> PhraseB(<<"distributable", "amount">>), name |-> "distributable_amount"],
      [pat |-> PhraseB(<<"shortfall">>), name |-> "shortfall"],
      [pat |-> PhraseB(<<"distribution">>), name |-> "distribution"],
      [pat |-> PhraseB(<<"deficiency">>), name |-> "deficiency"],
      [pat |-> PhraseB(<<"required", "amount">>), name |-> "required_amount"],
      [pat |-> PhraseB(<<"payment", "amount">>), name |-> "payment_amount"],
      [pat |-> PhraseB(<<"collection", "amount">>), name |-> "collection_amount"]>>

\* len(re.findall(pat, text)) for a pattern whose matches cannot overlap
FindallCount(pat, text) ==
    Cardinality({p \in 1..(Len(text) + 1) : MatchesAt(pat, text, p)})

TermsContaining(terms, w) ==
    Cardinality({j \in DOMAIN terms : contains(lower(terms[j]), w)})

other_instrument_patterns ==
    <<[pat |-> AnyWordB(<<"note", "certificate", "bond", "security">>), name |-> ""]>>

\* the instrument that takes 'principal' when the two are tied
InstrumentComponentPrincipalOnTie(terms, all_text) ==
    LET Dominant(principal_count, interest_count) ==
            IF principal_count > 0 /\ principal_count >= interest_count THEN "principal"
            ELSE IF interest_count > principal_count THEN "interest"
            ELSE ""
        Instrument(dominant) ==
            IF dominant # "" THEN dominant
            ELSE FirstMatchValue(other_instrument_patterns, all_text)
    IN Instrument(Dominant(FindallCount(PhraseB(<<"principal">>), all_text),
                           FindallCount(PhraseB(<<"interest">>), all_text)))

\* lines 327-358
InstrumentComponent(terms, all_text) ==
    LET Dominant(principal_count, interest_count, principal_terms, interest_terms) ==
            IF principal_count > interest_count THEN "principal"
            ELSE IF interest_count > principal_count THEN "interest"
            ELSE IF principal_count > 0 /\ interest_count > 0
                 THEN IF principal_terms > interest_terms THEN "principal"
                      ELSE IF interest_terms > principal_terms THEN "interest"
                      ELSE ""
            ELSE ""
        Instrument(dominant) ==
            IF dominant # "" THEN dominant
            ELSE FirstMatchValue(other_instrument_patterns, all_text)
    IN Instrument(Dominant(FindallCount(PhraseB(<<"principal">>), all_text),
                           FindallCount(PhraseB(<<"interest">>), all_text),
                           TermsContaining(terms, "principal"),
                           TermsContaining(terms, "interest")))

\* lines 361-366
action_patterns ==
    <<[pat |-> AnyWordB(<<"payment", "collection", "allocation">>), name |-> ""],
      [pat |-> AnyWordB(<<"purchase", "sale", "transfer", "exchange">>), name |-> ""],
      [pat |-> AnyWordB(<<"accrual", "accrue", "accrued">>), name |-> "accrued"],
      [pat |-> AnyWordB(<<"outstanding", "aggregate", "available", "required">>),
       name |-> ""]>>

\* lines 374-380
concept_patterns ==
    <<[pat |-> AnyWordB(<<"balance", "amount", "value", "total", "sum">>), name |-> ""],
      [pat |-> AnyWordB(<<"rate", "factor", "percentage", "ratio">>), name |-> ""],
      [pat |-> AnyWordB(<<"fee", "expense", "cost", "charge">>), name |-> ""],
      [pat |-> AnyWordB(<<"income", "revenue", "yield", "return">>), name |-> ""],
      [pat |-> AnyWordB(<<"account", "reserve", "fund", "pool">>), name |-> ""]>>

\* lines 388-394
temporal_patterns ==
    <<[pat |-> AnyWordB(<<"beginning", "start", "initial", "opening">>),
       name |-> "beginning"],
      [pat |-> AnyWordB(<<"ending", "end", "final", "closing", "close">>),
       name |-> "ending"],
      [pat |-> AnyWordB(<<"current", "present", "today">>), name |-> "current"],
      [pat |-> AnyWordB(<<"previous", "prior", "last">>), name |-> "previous"],
      [pat |-> AnyWordB(<<"period", "date", "time", "term">>), name |-> ""]>>

\* ' '.join(terms).lower()
AllText(terms) == lower(join(terms, " "))

\* _extract_concept_components (lines 232-401); "" stands for None, and
\* direct for the early return {'direct_financial_term': name}
_extract_concept_components(terms) ==
    LET Components(all_text, direct) ==
            IF direct # ""
            THEN [direct |-> direct, class |-> "", tranche |-> "", instrument |-> "",
                  amount_type |-> "", action |-> "", concept |-> "", temporal |-> ""]
            ELSE [direct |-> "",
                  class |-> ClassComponent(terms),
                  tranche |-> TrancheComponent(terms),
                  instrument |-> InstrumentComponent(terms, all_text),
                  amount_type |-> FirstMatchName(amount_type_patterns, all_text),
                  action |-> FirstMatchValue(action_patterns, all_text),
                  concept |-> FirstMatchValue(concept_patterns, all_text),
                  temporal |-> FirstMatchValue(temporal_patterns, all_text)]
        Extract(all_text) ==
            Components(all_text, FirstMatchName(direct_financial_patterns, all_text))
    IN Extract(AllText(terms))

\* word_priorities of _build_from_common_words (lines 409-438); 0: not in the table
word_priority(w) ==
    CASE w = "servicing" -> 120
      [] w \in {"backup", "trustee", "indenture"} -> 115
      [] w \in {"fee", "fees"} -> 110
      [] w \in {"expense", "expenses", "cost"} -> 105
      [] w \in {"class", "servicer"} -> 100
      [] w \in {"tranche", "dealer", "owner"} -> 95
      [] w = "series" -> 90
      [] w \in {"note", "certificate", "bond", "security"} -> 85
      [] w \in {"principal", "interest", "reserve"} -> 80
      [] w \in {"distribution", "payment", "collection"} -> 75
      [] w \in {"accrued", "outstanding", "available"} -> 70
      [] w \in {"balance", "account"} -> 65
      [] w \in {"rate", "income"} -> 60
      [] w \in {"net", "gross"} -> 50
      [] w \in {"beginning", "ending", "current", "required", "eligible", "applicable"} -> 45
      [] w \in {"amount", "aggregate", "total"} -> 40
      [] w \in {"period", "date"} -> 35
      [] OTHER -> 0

RECURSIVE TakeWhileRoom(_, _, _, _, _)
\* one selection pass of lines 460-471: the words scoring lo..hi-1 that are
\* not selected yet, while fewer than four words are selected
TakeWhileRoom(scored, selected, lo, hi, i) ==
    IF i > Len(scored) \/ Len(selected) >= 4 THEN selected
    ELSE IF scored[i].n >= lo /\ scored[i].n < hi /\ scored[i].w \notin SeqToSet(selected)
         THEN TakeWhileRoom(scored, Append(selected, scored[i].w), lo, hi, i + 1)
         ELSE TakeWhileRoom(scored, selected, lo, hi, i + 1)

\* the name built from the four best common words, whatever their scores
_build_from_common_words_top4(common_words, terms) ==
    LET Priority(p) == IF p > 0 THEN p ELSE 30
        Scored(known) ==
            SortDesc([j \in DOMAIN known |->
                [w |-> known[j], n |-> Priority(word_priority(known[j]))]])
        Selected(scored_words) ==
            TakeWhileRoom(scored_words, TakeWhileRoom(scored_words, <<>>, 60, 1000, 1),
                          40, 60, 1)
        Joined(selected_words) ==
            IF selected_words # <<>> THEN join(selected_words, "_")
            ELSE _select_best_term(terms)
    IN IF common_words = <<>> THEN _select_best_term(terms)
       ELSE Joined(Selected(Scored(SelectSeq(common_words,
                LAMBDA w : word_priority(w) > 0 \/ Len(w) > 3))))

\* _build_from_common_words (lines 403-476)
_build_from_common_words(common_words, terms) ==
    LET Priority(p) == IF p > 0 THEN p ELSE 30
        Scored(known) ==
            SortDesc([j \in DOMAIN known |->
                [w |-> known[j], n |-> Priority(word_priority(known[j]))]])
        Selected(scored_words) ==
            TakeWhileRoom(scored_words,
                TakeWhileRoom(scored_words,
                    WordsOf(SelectSeq(scored_words, LAMBDA x : x.n >= 110)),
                    60, 110, 1),
                40, 60, 1)
        Joined(selected_words) ==
            IF selected_words # <<>> THEN join(selected_words, "_")
            ELSE _select_best_term(terms)
    IN IF common_words = <<>> THEN _select_best_term(terms)
       ELSE Joined(Selected(Scored(SelectSeq(common_words,
                LAMBDA w : word_priority(w) > 0 \/ Len(w) > 3))))

\* _identify_core_concept (lines 186-230)
\* the assembly that puts the temporal qualifier before the concept
_identify_core_concept_temporal_first(terms, common_words) ==
    LET Parts(c) ==
            (IF c.class # "" THEN <<"class_" \o c.class>>
             ELSE IF c.tranche # "" THEN <<"tranche_" \o c.tranche>> ELSE <<>>)
            \o (IF c.instrument # "" THEN <<c.instrument>> ELSE <<>>)
            \o (IF c.amount_type # "" THEN <<c.amount_type>> ELSE <<>>)
            \o (IF c.action # "" THEN <<c.action>> ELSE <<>>)
            \o (IF c.temporal # "" THEN <<c.temporal>> ELSE <<>>)
            \o (IF c.concept # "" THEN <<c.concept>> ELSE <<>>)
        Assemble(direct, canonical_parts) ==
            IF direct # "" THEN direct
            ELSE IF canonical_parts # <<>> THEN join(canonical_parts, "_")
            ELSE _build_from_common_words(common_words, terms)
        Concept(c) == Assemble(c.direct, Parts(c))
    IN Concept(_extract_concept_components(terms))

_identify_core_concept(terms, common_words) ==
    LET Parts(c) ==
            (IF c.class # "" THEN <<"class_" \o c.class>>
             ELSE IF c.tranche # "" THEN <<"tranche_" \o c.tranche>> ELSE <<>>)
            \o (IF c.instrument # "" THEN <<c.instrument>> ELSE <<>>)
            \o (IF c.amount_type # "" THEN <<c.amount_type>> ELSE <<>>)
            \o (IF c.action # "" THEN <<c.action>> ELSE <<>>)
            \o (IF c.concept # "" THEN <<c.concept>> ELSE <<>>)
            \o (IF c.temporal # "" THEN <<c.temporal>> ELSE <<>>)
        Assemble(direct, canonical_parts) ==
            IF direct # "" THEN direct
            ELSE IF canonical_parts # <<>> THEN join(canonical_parts, "_")
            ELSE _build_from_common_words(common_words, terms)
        Concept(c) == Assemble(c.direct, Parts(c))
    IN Concept(_extract_concept_components(terms))

MaxNameLen == 50

\* _generate_single_canonical_name (lines 151-169)
_generate_single_canonical_name(terms) ==
    LET Name(concept) ==
            IF concept = "" \/ Len(concept) > MaxNameLen
            THEN _select_best_term(terms) ELSE concept
    IN IF terms = <<>> THEN "unknown_cluster"
       ELSE _clean_canonical_name(
                Name(_identify_core_concept(terms, _find_common_words(terms))))

\* _create_better_canonical_name, lines 117-126
specific_patterns ==
    <<[pat |-> <<B, A(<<"servicing", "backup", "trustee", "owner">>), W1, L("fee")>>,
       name |-> "specific_fee"],
      [pat |-> <<B, A(<<"investment", "interest">>), W1, L("earnings")>>,
       name |-> "earnings"],
      [pat |-> <<B, A(<<"reserve", "trust">>), W1, L("fund")>>, name |-> "fund_account"],
      [pat |-> <<B, A(<<"pool", "aggregate">>), W1, L("balance")>>, name |-> "pool_balance"],
      [pat |-> <<B, A(<<"advance", "overcollateralization">>), W1, L("rate")>>,
       name |-> "advance_rate"],
      [pat |-> <<B, A(<<"distribution", "payment">>), W1, L("date")>>,
       name |-> "payment_date"],
      [pat |-> <<B, A(<<"beginning", "ending">>), W1, L("period")>>,
       name |-> "period_boundary"],
      [pat |-> <<B, L("class"), W1, C(ClassLetters), W1>>, name |-> "class_specific"]>>

\* min(q, key=len): the first shortest element
FirstShortest(q) ==
    q[Min({i \in DOMAIN q : \A j \in DOMAIN q : Len(q[i]) <= Len(q[j])})]

\* _create_better_canonical_name (lines 110-149)
_create_better_canonical_name(terms, original_name) ==
    LET Better(specific, meaningful_terms) ==
            IF specific # "" THEN specific
            ELSE IF /\ Len(terms) = 1
                    /\ strip(lower(terms[1]), SpaceChars) \in junk_canonical_names
            THEN "excluded_generic_" \o replace_char(lower(terms[1]), " ", "_")
            ELSE IF meaningful_terms # <<>>
            THEN _clean_canonical_name(FirstShortest(meaningful_terms))
            ELSE "low_priority_" \o original_name
    IN Better(FirstMatchName(specific_patterns, AllText(terms)),
              SelectSeq(terms, LAMBDA t : Len(split(lower(t))) > 1))

\* lines 49-57 of generate_canonical_names: the name of one cluster before
\* the essential-term pass
FilteredName(terms) ==
    LET Filtered(canonical_name) ==
            IF _is_junk_canonical_name(canonical_name)
            THEN _create_better_canonical_name(terms, canonical_name)
            ELSE canonical_name
    IN Filtered(_generate_single_canonical_name(terms))

\* _ensure_essential_financial_terms, lines 531-539
essential_patterns ==
    <<[name |-> "servicing_fee",
       pats |-> <<Phrase(<<"servicing", "fee">>), Phrase(<<"servicing", "fees">>)>>],
      [name |-> "trustee_fee",
       pats |-> <<Phrase(<<"trustee", "fee">>), Phrase(<<"indenture", "trustee">>),
                  Phrase(<<"owner", "trustee">>)>>],
      [name |-> "available_funds",
       pats |-> <<Phrase(<<"available", "funds">>), Phrase(<<"total", "available">>)>>],
      [name |-> "reserve_fund",
       pats |-> <<Phrase(<<"reserve", "fund">>), Phrase(<<"cash", "reserve">>)>>],
      [name |-> "pool_factor",
       pats |-> <<Phrase(<<"pool", "factor">>), Phrase(<<"factor">>)>>],
      [name |-> "overcollateralization",
       pats |-> <<Phrase(<<"overcollateralization">>), Phrase(<<"oc", "test">>)>>],
      [name |-> "waterfall",
       pats |-> <<Phrase(<<"waterfall">>), Phrase(<<"priority", "of", "payments">>)>>]>>

\* the override condition that forgets the low_priority_ names
NeedsEnhancementExcludedOnly(canonical_name) ==
    \/ startswith(canonical_name, "excluded_")
    \/ canonical_name \in junk_canonical_names

\* the override condition that holds of every name
NeedsEnhancementAlways(canonical_name) == canonical_name = canonical_name

\* lines 559-561: the names the pass may overwrite
NeedsEnhancement(canonical_name) ==
    \/ startswith(canonical_name, "excluded_")
    \/ startswith(canonical_name, "low_priority_")
    \/ canonical_name \in junk_canonical_names

\* lines 563-569
EnhancedName(all_text, pattern_name) ==
    IF re_search(namer_class_pattern, all_text)
    THEN "class_" \o group1(namer_class_pattern, all_text) \o "_" \o pattern_name
    ELSE pattern_name

RECURSIVE EssentialPatternsLoopUntracked(_, _, _, _, _)
\* the loop over the patterns that does not record the patterns it found
EssentialPatternsLoopUntracked(st, c, canonical_name, all_text, j) ==
    IF j > Len(essential_patterns) THEN st
    ELSE LET Hit(e) == \E r \in DOMAIN e.pats : re_search(e.pats[r], all_text)
             Enhanced(e, enhanced_name) ==
                 [names |-> [st.names EXCEPT ![c] = enhanced_name],
                  found |-> st.found,
                  logged |-> Append(st.logged,
                      [level |-> "info", msg |-> "Enhanced cluster",
                       what |-> enhanced_name])]
             After(e) ==
                 IF Hit(e) /\ NeedsEnhancement(canonical_name)
                 THEN Enhanced(e, EnhancedName(all_text, e.name))
                 ELSE st
         IN EssentialPatternsLoopUntracked(After(essential_patterns[j]), c,
                                           canonical_name, all_text, j + 1)

RECURSIVE EssentialPatternsLoop(_, _, _, _, _)
\* lines 554-576 for one cluster: st is [names, found, logged]; canonical_name
\* is the name the cluster had when its iteration began
EssentialPatternsLoop(st, c, canonical_name, all_text, j) ==
    IF j > Len(essential_patterns) THEN st
    ELSE LET Hit(e) ==
                 /\ e.name \notin st.found
                 /\ \E r \in DOMAIN e.pats : re_search(e.pats[r], all_text)
             Enhanced(e, enhanced_name) ==
                 [names |-> [st.names EXCEPT ![c] = enhanced_name],
                  found |-> st.found \cup {e.name},
                  logged |-> Append(st.logged,
                      [level |-> "info", msg |-> "Enhanced cluster",
                       what |-> enhanced_name])]
             After(e) ==
                 IF ~Hit(e) THEN st
                 ELSE IF NeedsEnhancement(canonical_name)
                 THEN Enhanced(e, EnhancedName(all_text, e.name))
                 ELSE [st EXCEPT !.found = @ \cup {e.name}]
         IN EssentialPatternsLoop(After(essential_patterns[j]), c, canonical_name,
                                  all_text, j + 1)

RECURSIVE EssentialClustersLoop(_, _, _)
\* lines 545-576: the loop over the clusters
EssentialClustersLoop(st, cs, c) ==
    IF c > Len(cs) THEN st
    ELSE IF startswith(st.names[c], "class_")
         THEN EssentialClustersLoop(st, cs, c + 1)
         ELSE EssentialClustersLoop(
                  EssentialPatternsLoop(st, c, st.names[c], AllText(cs[c].terms), 1),
                  cs, c + 1)

\* _ensure_essential_financial_terms (lines 526-578)
_ensure_essential_financial_terms(cs, names) ==
    EssentialClustersLoop([names |-> names, found |-> {}, logged |-> <<>>], cs, 1)

\* generate_canonical_names (lines 45-62): [names, found, logged]
generate_canonical_names(cs) ==
    _ensure_essential_financial_terms(cs,
        [c \in DOMAIN cs |-> FilteredName(cs[c].terms)])

-----------------------------------------------------------------------------
(* fuzzy_matcher.py.  Scores are kept in hundredths of a point, so that    *)
(* fuzz.WRatio's fractions compare exactly with the integer thresholds.    *)

Pts(n) == n * 100

Max2(a, b) == IF a >= b THEN a ELSE b
Min2(a, b) == IF a <= b THEN a ELSE b

RECURSIVE LcsRow(_, _, _, _)
\* the row of the longest-common-subsequence table for the character c,
\* from the row before it; acc holds the cells already filled in
LcsRow(c, s2, prev, acc) ==
    LET Cell(j) == IF Ch(s2, j) = c THEN prev[j] + 1 ELSE Max2(prev[j + 1], acc[j])
    IN IF Len(acc) > Len(s2) THEN acc
       ELSE LcsRow(c, s2, prev, Append(acc, Cell(Len(acc))))

RECURSIVE LcsRows(_, _, _)
\* the last cell of the table; each row is evaluated before the next is begun
LcsRows(s1, s2, prev) ==
    IF Len(prev) > 0 /\ s1 = "" THEN prev[Len(s2) + 1]
    ELSE LcsRows(Tail(s1), s2, LcsRow(Head(s1), s2, prev, <<0>>))

RECURSIVE CommonPrefixLen(_, _)
CommonPrefixLen(s1, s2) ==
    IF s1 # "" /\ s2 # "" /\ Head(s1) = Head(s2)
    THEN 1 + CommonPrefixLen(Tail(s1), Tail(s2)) ELSE 0

\* length of the longest common subsequence (a common prefix is always part of one)
LcsLen(s1, s2) ==
    LET Rest(r1, r2) == LcsRows(r1, r2, [j \in 1..(Len(r2) + 1) |-> 0])
        From(k) == k + Rest(SubSeq(s1, k + 1, Len(s1)), SubSeq(s2, k + 1, Len(s2)))
    IN From(CommonPrefixLen(s1, s2))

\* rapidfuzz fuzz.ratio: the normalized Indel similarity, 100 * 2 * lcs / (len1 + len2)
fuzz_ratio(s1, s2) ==
    IF Len(s1) + Len(s2) = 0 THEN Pts(100)
    ELSE (Pts(100) * 2 * LcsLen(s1, s2)) \div (Len(s1) + Len(s2))

\* the characters of the model's alphabet in code point order
OrdSeq == "\t #*-/0123456789ABCDEFGHIJKLMNOPQRSTUVWXYZ_abcdefghijklmnopqrstuvwxyzé"

Ord(c) == CHOOSE i \in 1..Len(OrdSeq) : Ch(OrdSeq, i) = c

RECURSIVE StrLeq(_, _)
\* s1 <= s2 as Python compares str
StrLeq(s1, s2) ==
    IF s1 = "" THEN TRUE
    ELSE IF s2 = "" THEN FALSE
    ELSE IF Head(s1) = Head(s2) THEN StrLeq(Tail(s1), Tail(s2))
    ELSE Ord(Head(s1)) < Ord(Head(s2))

RECURSIVE InsertSorted(_, _)
InsertSorted(sorted, x) ==
    IF sorted = <<>> THEN <<x>>
    ELSE IF StrLeq(Head(sorted), x)
         THEN <<Head(sorted)>> \o InsertSorted(Tail(sorted), x)
         ELSE <<x>> \o sorted

RECURSIVE sorted_strs(_)
\* sorted(q) for strings
sorted_strs(q) ==
    IF q = <<>> THEN <<>> ELSE InsertSorted(sorted_strs(Tail(q)), Head(q))

\* rapidfuzz fuzz.token_sort_ratio
token_sort_ratio(s1, s2) ==
    fuzz_ratio(join(sorted_strs(split(s1)), " "), join(sorted_strs(split(s2)), " "))

\* 100 * (1 - dist / lensum)
NormDist(dist, lensum) ==
    IF lensum = 0 THEN Pts(100) ELSE Pts(100) - (Pts(100) * dist + lensum - 1) \div lensum

\* the tokens of q that are in S, once each, sorted and joined by spaces
JoinedTokens(q, S) ==
    join(sorted_strs(SelectSeq(unique_terms_of(q), LAMBDA t : t \in S)), " ")

\* rapidfuzz fuzz.token_set_ratio
token_set_ratio(s1, s2) ==
    LET Ratios(diff_ab_joined, diff_ba_joined, sect_len) ==
            LET ab_len == Len(diff_ab_joined)
                ba_len == Len(diff_ba_joined)
                gap == IF sect_len # 0 THEN 1 ELSE 0
                sect_ab_len == sect_len + gap + ab_len
                sect_ba_len == sect_len + gap + ba_len
                Best(result) ==
                    IF sect_len = 0 THEN result
                    ELSE Max2(result,
                              Max2(NormDist(gap + ab_len, sect_len + sect_ab_len),
                                   NormDist(gap + ba_len, sect_len + sect_ba_len)))
            IN Best(NormDist(ab_len + ba_len
                                 - 2 * LcsLen(diff_ab_joined, diff_ba_joined),
                             sect_ab_len + sect_ba_len))
        OfTokens(split_a, split_b, tokens_a, tokens_b) ==
            IF tokens_a = {} \/ tokens_b = {} THEN 0
            ELSE IF /\ tokens_a \cap tokens_b # {}
                    /\ (tokens_a \subseteq tokens_b \/ tokens_b \subseteq tokens_a)
            THEN Pts(100)
            ELSE Ratios(JoinedTokens(split_a, tokens_a \ tokens_b),
                        JoinedTokens(split_b, tokens_b \ tokens_a),
                        Len(JoinedTokens(split_a, tokens_a \cap tokens_b)))
        OfSplit(split_a, split_b) ==
            OfTokens(split_a, split_b, SeqToSet(split_a), SeqToSet(split_b))
    IN OfSplit(split(s1), split(s2))

\* rapidfuzz fuzz.token_ratio
token_ratio(s1, s2) == Max2(token_sort_ratio(s1, s2), token_set_ratio(s1, s2))

\* the best fuzz.ratio of short against a window of long: the prefixes
\* shorter than short, the windows as long as short, and the suffixes
PartialRatioImpl(short, long) ==
    LET Windows(m, n) ==
            {SubSeq(long, 1, e) : e \in 1..(m - 1)}
            \cup {SubSeq(long, b, b + m - 1) : b \in 1..(n - m)}
            \cup {SubSeq(long, b, n) : b \in (n - m + 1)..n}
    IN Max({0} \cup {fuzz_ratio(short, w) : w \in Windows(Len(short), Len(long))})

\* rapidfuzz fuzz.partial_ratio
partial_ratio(s1, s2) ==
    IF s1 = "" /\ s2 = "" THEN Pts(100)
    ELSE IF s1 = "" \/ s2 = "" THEN 0
    ELSE IF Len(s1) < Len(s2) THEN PartialRatioImpl(s1, s2)
    ELSE IF Len(s2) < Len(s1) THEN PartialRatioImpl(s2, s1)
    ELSE Max2(PartialRatioImpl(s1, s2), PartialRatioImpl(s2, s1))

\* rapidfuzz fuzz.partial_token_ratio
partial_token_ratio(s1, s2) ==
    LET OfTokens(split_a, split_b, tokens_a, tokens_b) ==
            LET Both(result) ==
                    IF /\ tokens_a \cap tokens_b = {}
                       /\ Cardinality(tokens_a) = Len(split_a)
                       /\ Cardinality(tokens_b) = Len(split_b)
                    THEN result
                    ELSE Max2(result,
                              partial_ratio(JoinedTokens(split_a, tokens_a \ tokens_b),
                                            JoinedTokens(split_b, tokens_b \ tokens_a)))
            IN IF tokens_a = {} \/ tokens_b = {} THEN 0
               ELSE IF tokens_a \cap tokens_b # {} THEN Pts(100)
               ELSE Both(partial_ratio(join(sorted_strs(split_a), " "),
                                       join(sorted_strs(split_b), " ")))
        OfSplit(split_a, split_b) ==
            OfTokens(split_a, split_b, SeqToSet(split_a), SeqToSet(split_b))
    IN OfSplit(split(s1), split(s2))

\* rapidfuzz fuzz.WRatio(s1, s2) as fuzzy_matcher.py calls it (no processor):
\* the weights are UNBASE_SCALE 0.95 and PARTIAL_SCALE 0.9 or 0.6
WRatio(s1, s2) ==
    LET Weighted(longer, shorter, end_ratio) ==
            LET partial_scale == IF longer <= 8 * shorter THEN 90 ELSE 60
            IN \* len_ratio < 1.5
               IF 2 * longer < 3 * shorter
               THEN Max2(end_ratio, (token_ratio(s1, s2) * 95) \div 100)
               ELSE Max2(Max2(end_ratio,
                              (partial_ratio(s1, s2) * partial_scale) \div 100),
                         (partial_token_ratio(s1, s2) * 95 * partial_scale) \div 10000)
    IN IF s1 = "" \/ s2 = "" THEN 0
       ELSE Weighted(Max2(Len(s1), Len(s2)), Min2(Len(s1), Len(s2)), fuzz_ratio(s1, s2))

\* the confidence that gives the bonus of the top features to clusters of
\* any size
_calculate_term_confidence_any_size(term, canonical_name, cluster_data) ==
    LET Bonuses(term_lower, term_words) ==
            (IF SeqToSet(split_on(canonical_name, "_")) \cap term_words # {}
             THEN Min2(Pts(20), Pts(10) * Cardinality(
                      SeqToSet(split_on(canonical_name, "_")) \cap term_words))
             ELSE 0)
            + (IF contains(term_lower, replace_char(canonical_name, "_", " "))
               THEN Pts(15) ELSE 0)
            + (IF \E w \in term_words : w \in SeqToSet(cluster_data.top_features)
               THEN Pts(10) ELSE 0)
        OfLower(term_lower) ==
            Min2(Pts(100), WRatio(term_lower, lower(canonical_name))
                           + Bonuses(term_lower, SeqToSet(split(term_lower))))
    IN OfLower(lower(term))

\* _calculate_term_confidence (lines 51-79)
_calculate_term_confidence(term, canonical_name, cluster_data) ==
    LET WithOverlap(direct_score, word_overlap) ==
            IF word_overlap > 0
            THEN Min2(Pts(100), direct_score + Min2(Pts(20), word_overlap * Pts(10)))
            ELSE direct_score
        WithPhrase(direct_score, term_lower) ==
            IF contains(term_lower, replace_char(canonical_name, "_", " "))
            THEN Min2(Pts(100), direct_score + Pts(15))
            ELSE direct_score
        WithFrequency(direct_score, term_words) ==
            IF /\ cluster_data.count > 3
               /\ \E w \in term_words : w \in SeqToSet(cluster_data.top_features)
            THEN Min2(Pts(100), direct_score + Pts(10))
            ELSE direct_score
        Confidence(term_lower, term_words) ==
            WithFrequency(
                WithPhrase(
                    WithOverlap(WRatio(term_lower, lower(canonical_name)),
                        Cardinality(SeqToSet(split_on(canonical_name, "_"))
                                    \cap term_words)),
                    term_lower),
                term_words)
        OfLower(term_lower) == Confidence(term_lower, SeqToSet(split(term_lower)))
    IN OfLower(lower(term))

\* the tiers with very_high beginning at 90
_calculate_confidence_level_90(score, threshold) ==
    IF score >= Pts(90) THEN "very_high"
    ELSE IF score >= Pts(85) THEN "high"
    ELSE IF score >= Pts(threshold) THEN "medium"
    ELSE "low"

\* _calculate_confidence_level (lines 81-90)
_calculate_confidence_level(score, threshold) ==
    IF score >= Pts(95) THEN "very_high"
    ELSE IF score >= Pts(85) THEN "high"
    ELSE IF score >= Pts(threshold) THEN "medium"
    ELSE "low"

\* the test against the default threshold of config.py, whatever is configured
MeetsDefaultThreshold(confidence_score, threshold) == confidence_score >= Pts(70)

\* create_mappings, line 33: the test a mapping must pass to be kept
MeetsThreshold(confidence_score, threshold) == confidence_score >= Pts(threshold)

RECURSIVE MappingsOfTerms(_, _, _, _, _)
\* the inner loop of create_mappings (lines 29-46) over the terms of one
\* cluster: [mappings, logged]
MappingsOfTerms(cluster_data, id, canonical_name, threshold, i) ==
    IF i > Len(cluster_data.terms) THEN [mappings |-> <<>>, logged |-> <<>>]
    ELSE LET Step(term, confidence_score, rest) ==
                 IF MeetsThreshold(confidence_score, threshold)
                 THEN [mappings |->
                           <<[original_term |-> term,
                              canonical_name |-> canonical_name,
                              cluster_id |-> id,
                              fuzzy_score |-> confidence_score,
                              fuzzy_match |-> canonical_name,
                              confidence |->
                                  _calculate_confidence_level(confidence_score,
                                                              threshold)]>>
                           \o rest.mappings,
                       logged |-> rest.logged]
                 ELSE [mappings |-> rest.mappings,
                       logged |-> <<[level |-> "info", msg |-> "excluded",
                                     what |-> term]>> \o rest.logged]
         IN Step(cluster_data.terms[i],
                 _calculate_term_confidence(cluster_data.terms[i], canonical_name,
                                            cluster_data),
                 MappingsOfTerms(cluster_data, id, canonical_name, threshold, i + 1))

RECURSIVE MappingsOfClustersFirstName(_, _, _, _)
\* the mappings that all carry the name of the first cluster
MappingsOfClustersFirstName(cs, names, threshold, c) ==
    IF c > Len(cs) THEN [mappings |-> <<>>, logged |-> <<>>]
    ELSE LET Both(here, rest) ==
                 [mappings |-> here.mappings \o rest.mappings,
                  logged |-> here.logged \o rest.logged]
         IN Both(MappingsOfTerms(cs[c], c - 1, names[1], threshold, 1),
                 MappingsOfClustersFirstName(cs, names, threshold, c + 1))

RECURSIVE MappingsOfClusters(_, _, _, _)
MappingsOfClusters(cs, names, threshold, c) ==
    IF c > Len(cs) THEN [mappings |-> <<>>, logged |-> <<>>]
    ELSE LET Both(here, rest) ==
                 [mappings |-> here.mappings \o rest.mappings,
                  logged |-> here.logged \o rest.logged]
         IN Both(MappingsOfTerms(cs[c], c - 1, names[c], threshold, 1),
                 MappingsOfClusters(cs, names, threshold, c + 1))

\* create_mappings (lines 21-49): [mappings, logged]
create_mappings(cs, names, threshold) == MappingsOfClusters(cs, names, threshold, 1)

-----------------------------------------------------------------------------
(* Inputs                                                                  *)

\* Terms as the extractor hands them over, in the order of extraction.  A
\* term list is a subsequence of a corpus of at most max_terms terms,
\* followed by up to max_repeats repetitions of its first term.
RECURSIVE Pick(_, _, _)
\* the subsequence of q at the indices in S
Pick(q, S, i) ==
    IF i > Len(q) THEN <<>>
    ELSE (IF i \in S THEN <<q[i]>> ELSE <<>>) \o Pick(q, S, i + 1)

RECURSIVE Repeat(_, _)
Repeat(x, n) == IF n = 0 THEN <<>> ELSE <<x>> \o Repeat(x, n - 1)

TermLists(corpus, max_terms, max_repeats) ==
    {Pick(corpus, S, 1) \o (IF S = {} THEN <<>> ELSE Repeat(corpus[Min(S)], r)) :
        S \in {T \in SUBSET DOMAIN corpus : Cardinality(T) <= max_terms},
        r \in 0..max_repeats}

MaxTerms == 4
MaxRepeats == 1

\* the terms the whole pipeline is run on
Corpus ==
    <<"class a interest distributable amount",
      "class a interest shortfall",
      "servicing fee",
      "servicer fee",
      "a b c d",
      "***">>

Inputs == TermLists(Corpus, MaxTerms, 0)

\* the terms the clustering stage is run on
ClusteringCorpus ==
    <<"class b principal balance",
      "class a interest distributable amount",
      "class a interest shortfall",
      "class a notes",
      "servicing fee",
      "total",
      "subclass b balance",
      "a b c d",
      "***">>

ClusteringInputs == TermLists(ClusteringCorpus, MaxTerms, MaxRepeats)

\* fuzzy_threshold: the default of ProcessingConfig, that of the configuration
\* file main.py writes, and a stricter one a configuration file may set
Thresholds == {70, 80, 90}

\* Term lists _separate_terms_by_class is applied to on its own: lists of at
\* most MaxSeparateTerms different terms, and the list of scenario 1
SeparatePool ==
    {"class a interest", "Class A notes", "CLASS B", "class ab", "classa",
     "subclass a", "class g x", "class b and class a", "class\ta", "tranche a",
     "class a1", "class_a"}

MaxSeparateTerms == 2

Scenario1 ==
    <<"class a interest distributable amount",
      "class a interest shortfall",
      "class b principal balance">>

RECURSIVE DistinctLists(_, _)
\* the lists of at most n different elements of S
DistinctLists(S, n) ==
    IF n = 0 THEN {<<>>}
    ELSE {<<>>} \cup {<<x>> \o q : x \in S, q \in DistinctLists(S, n - 1)}

SeparateInputs ==
    {q \in DistinctLists(SeparatePool, MaxSeparateTerms) :
        Cardinality(SeqToSet(q)) = Len(q)} \cup {Scenario1}

-----------------------------------------------------------------------------
(* process_files (main.py) and the stages it runs                          *)

\* process_files has extracted terms and is about to cluster them
Extracted(term_lists) ==
    /\ pc = "extracted"
    /\ all_terms \in term_lists
    /\ fuzzy_threshold \in Thresholds
    /\ class_terms = <<>>
    /\ general_terms = <<>>
    /\ next_class = 0
    /\ clusters = <<>>
    /\ cluster_id = 0
    /\ canonical_names = <<>>
    /\ mappings = <<>>
    /\ log = <<>>

\* process_files, lines 165-167: nothing was extracted
NoTermsExit ==
    /\ pc = "extracted"
    /\ all_terms = <<>>
    /\ pc' = "returned_empty"
    /\ log' = Append(log, [level |-> "error", msg |-> "No terms extracted", what |-> ""])
    /\ UNCHANGED <<all_terms, fuzzy_threshold, class_terms,
                   general_terms, next_class, clusters, cluster_id,
                   canonical_names, mappings>>

\* cluster_terms, lines 31-32: fewer than two terms give no cluster at all
ClusterTermsTooFew ==
    /\ pc = "extracted"
    /\ all_terms # <<>>
    /\ Len(all_terms) < 2
    /\ clusters' = <<>>
    /\ pc' = "clustered"
    /\ UNCHANGED <<all_terms, fuzzy_threshold, class_terms,
                   general_terms, next_class, cluster_id, canonical_names,
                   mappings, log>>

\* cluster_terms, lines 44-59: at most three unique terms, one cluster each
ClusterTermsSimple ==
    /\ pc = "extracted"
    /\ Len(all_terms) >= 2
    /\ Len(unique_terms_of(all_terms)) <= ShortcutLimit
    /\ clusters' = SingletonClusters(unique_terms_of(all_terms))
    /\ pc' = "clustered"
    /\ UNCHANGED <<all_terms, fuzzy_threshold, class_terms,
                   general_terms, next_class, cluster_id, canonical_names,
                   mappings, log>>

\* cluster_terms, line 62, and the start of _class_aware_clustering
SeparateTerms ==
    /\ pc = "extracted"
    /\ Len(all_terms) >= 2
    /\ Len(unique_terms_of(all_terms)) > ShortcutLimit
    /\ LET r == _separate_terms_by_class(unique_terms_of(all_terms))
       IN /\ class_terms' = r.class_terms
          /\ general_terms' = r.general_terms
    /\ clusters' = <<>>
    /\ cluster_id' = 0
    /\ next_class' = 1
    /\ log' = Append(log, SeparatedTerms)
    /\ pc' = "class_aware"
    /\ UNCHANGED <<all_terms, fuzzy_threshold, canonical_names, mappings>>

\* the class partition whose clusters all take one cluster id
ClusterClassPartitionOneId ==
    /\ pc = "class_aware"
    /\ next_class <= Len(class_terms)
    /\ LET part == class_terms[next_class] IN
       \E outcome \in SklearnOutcomes(IF Len(part.terms) = 1 THEN <<>> ELSE part.terms,
                                      "class_" \o part.letter) :
           LET r == ClassPartitionClusters(part.letter, part.terms, outcome)
           IN /\ clusters' = clusters \o r.clusters
              /\ cluster_id' = cluster_id + 1
              /\ log' = log \o r.logged
    /\ next_class' = next_class + 1
    /\ UNCHANGED <<pc, all_terms, fuzzy_threshold, class_terms,
                   general_terms, canonical_names, mappings>>

\* _class_aware_clustering, lines 112-129: the next class partition
ClusterClassPartition ==
    /\ pc = "class_aware"
    /\ next_class <= Len(class_terms)
    /\ LET part == class_terms[next_class] IN
       \E outcome \in SklearnOutcomes(IF Len(part.terms) = 1 THEN <<>> ELSE part.terms,
                                      "class_" \o part.letter) :
           LET r == ClassPartitionClusters(part.letter, part.terms, outcome)
           IN /\ clusters' = clusters \o r.clusters
              /\ cluster_id' = cluster_id + Len(r.clusters)
              /\ log' = log \o r.logged
    /\ next_class' = next_class + 1
    /\ UNCHANGED <<pc, all_terms, fuzzy_threshold, class_terms,
                   general_terms, canonical_names, mappings>>

\* _class_aware_clustering, lines 131-139: the general partition, and the return
ClusterGeneralPartition ==
    /\ pc = "class_aware"
    /\ next_class > Len(class_terms)
    /\ \E outcome \in SklearnOutcomes(general_terms, "general") :
           LET r == GeneralPartitionClusters(general_terms, outcome)
           IN /\ clusters' = clusters \o r.clusters
              /\ cluster_id' = cluster_id + Len(r.clusters)
              /\ log' = log \o r.logged
    /\ pc' = "clustered"
    /\ UNCHANGED <<all_terms, fuzzy_threshold, class_terms,
                   general_terms, next_class, canonical_names, mappings>>

\* process_files, lines 182-184
ClusteringFailed ==
    /\ pc = "clustered"
    /\ clusters = <<>>
    /\ pc' = "returned_empty"
    /\ log' = Append(log, [level |-> "error", msg |-> "Clustering failed", what |-> ""])
    /\ UNCHANGED <<all_terms, fuzzy_threshold, class_terms,
                   general_terms, next_class, clusters, cluster_id,
                   canonical_names, mappings>>

\* process_files, line 188
GenerateCanonicalNames ==
    /\ pc = "clustered"
    /\ clusters # <<>>
    /\ LET r == generate_canonical_names(clusters)
       IN /\ canonical_names' = r.names
          /\ log' = log \o r.logged
    /\ pc' = "named"
    /\ UNCHANGED <<all_terms, fuzzy_threshold, class_terms, general_terms,
                   next_class, clusters, cluster_id, mappings>>

\* process_files, line 192
CreateMappings ==
    /\ pc = "named"
    /\ LET r == create_mappings(clusters, canonical_names, fuzzy_threshold)
       IN /\ mappings' = r.mappings
          /\ log' = log \o r.logged
    /\ pc' = "mapped"
    /\ UNCHANGED <<all_terms, fuzzy_threshold, class_terms, general_terms,
                   next_class, clusters, cluster_id, canonical_names>>

\* cluster_terms as process_files calls it, and the two early exits
NextClustering ==
    \/ NoTermsExit
    \/ ClusterTermsTooFew
    \/ ClusterTermsSimple
    \/ SeparateTerms
    \/ ClusterClassPartition
    \/ ClusterGeneralPartition
    \/ ClusteringFailed

Next ==
    \/ NextClustering
    \/ GenerateCanonicalNames
    \/ CreateMappings

Init == Extracted(Inputs)

InitClustering == Extracted(ClusteringInputs)

\* the pipeline of process_files
Spec == Init /\ [][Next]_vars

\* its clustering stage alone, on more term lists
SpecClustering == InitClustering /\ [][NextClustering]_vars

-----------------------------------------------------------------------------
(* _separate_terms_by_class applied to a list of terms                     *)

InitSeparate ==
    /\ pc = "separating"
    /\ all_terms \in SeparateInputs
    /\ fuzzy_threshold \in Thresholds
    /\ class_terms = <<>>
    /\ general_terms = <<>>
    /\ next_class = 0
    /\ clusters = <<>>
    /\ cluster_id = 0
    /\ canonical_names = <<>>
    /\ mappings = <<>>
    /\ log = <<>>

Separate ==
    /\ pc = "separating"
    /\ LET r == _separate_terms_by_class(all_terms)
       IN /\ class_terms' = r.class_terms
          /\ general_terms' = r.general_terms
    /\ log' = Append(log, SeparatedTerms)
    /\ pc' = "separated"
    /\ UNCHANGED <<all_terms, fuzzy_threshold, next_class, clusters, cluster_id,
                   canonical_names, mappings>>

SpecSeparate == InitSeparate /\ [][Separate]_vars

-----------------------------------------------------------------------------
(* _class_aware_clustering applied to one large partition                  *)

\* Terms of class a and terms without identifier, as many as it takes for
\* n // 2 and n // 3 to exceed 2
ClassPool ==
    <<"class a interest", "class a principal", "class a balance", "class a notes",
      "class a shortfall", "class a factor", "class a rate">>

GeneralPool ==
    <<"servicing fee", "trustee fee", "reserve fund", "pool factor",
      "total collections", "available funds", "net losses", "delinquencies",
      "record date", "payment date">>

MaxClassPartition == 6
MaxGeneralPartition == 9

\* a class partition of 3 to MaxClassPartition terms beside one general
\* term, or one class term beside 3 to MaxGeneralPartition general terms
PartitionInputs ==
    {SubSeq(ClassPool, 1, m) \o SubSeq(GeneralPool, 1, 1) : m \in 3..MaxClassPartition}
    \cup {SubSeq(ClassPool, 1, 1) \o SubSeq(GeneralPool, 1, g) : g \in 3..MaxGeneralPartition}

\* cluster_terms at the call of _class_aware_clustering (line 65)
InitPartitions ==
    /\ pc = "class_aware"
    /\ all_terms \in PartitionInputs
    /\ fuzzy_threshold = 80
    /\ class_terms = _separate_terms_by_class(all_terms).class_terms
    /\ general_terms = _separate_terms_by_class(all_terms).general_terms
    /\ next_class = 1
    /\ clusters = <<>>
    /\ cluster_id = 0
    /\ canonical_names = <<>>
    /\ mappings = <<>>
    /\ log = <<SeparatedTerms>>

NextPartitions == ClusterClassPartition \/ ClusterGeneralPartition

SpecPartitions == InitPartitions /\ [][NextPartitions]_vars

-----------------------------------------------------------------------------
(* process_files on inputs that exercise the naming rules                  *)

NamingInputs ==
    {<<>>,
     <<"total">>,
     <<"total", "servicing fee">>,
     <<"total", "factor", "amount", "factors">>,
     <<"total", "waterfall", "factor", "amount">>,
     <<"pool factor", "total", "factor", "amount">>,
     <<"servicing fee", "servicer fee", "service fee", "total">>,
     <<"backup servicing fee", "trustee fee", "total">>,
     <<"total ***", "servicing fee">>,
     <<"class a interest distributable amount", "class a interest shortfall",
       "class b principal balance", "tranche b principal paid">>,
     <<"beginning pool balance", "accrued interest rate", "class c payment date">>}

InitNaming == Extracted(NamingInputs)

NextNaming == NextClustering \/ GenerateCanonicalNames

SpecNaming == InitNaming /\ [][NextNaming]_vars

-----------------------------------------------------------------------------
(* process_files on inputs that exercise the components of a name, the    *)
(* fallbacks of the namer and the scorer                                   *)

ComponentInputs ==
    {<<>>,
     <<"total">>,
     <<"principal and interest", "principal and interest note">>,
     <<"interest on interest", "principal due", "principal paid",
       "principal and interest">>,
     <<"class a interest", "class a principal", "class a principal and interest",
       "servicing fee">>,
     <<"fees servicing backup indenture trustee", "delinquencies">>,
     <<"servicer advances", "servicer report", "dealer report", "owner series">>,
     <<"cutoff date", "cutoff", "recoveries", "chargeoffs">>,
     <<"class a factor", "trustee fee", "total", "factor">>,
     <<"total amount", "servicing fee">>,
     <<"subclass b balance", "classb balance", "class a notes", "servicing fee">>,
     <<"class a current total", "tranche b ending amount", "class a total">>,
     <<"recoveries", "chargeoffs",
       "number of receivables that were more than ninety days delinquent",
       "receivables delinquent for more than ninety days at the cutoff of the reporting month">>}

InitComponents == Extracted(ComponentInputs)

SpecComponents == InitComponents /\ [][NextNaming]_vars

-----------------------------------------------------------------------------
(* Properties of the partitioner                                           *)

\* the places where term t occurs in the returned lists
PlacesOf(t) ==
    {pl \in UNION {{i} \X DOMAIN class_terms[i].terms : i \in DOMAIN class_terms} :
        class_terms[pl[1]].terms[pl[2]] = t}
    \cup {<<0, j>> : j \in {k \in DOMAIN general_terms : general_terms[k] = t}}

\* C1: once _separate_terms_by_class has returned, every term of its
\* deduplicated input occurs exactly once in the returned lists taken
\* together (the class-letter lists and the general list), and the lists hold
\* nothing but input terms: they are disjoint and their union is the input.
C1_PartitionCompleteness ==
    pc = "separated" =>
        /\ \A i \in DOMAIN all_terms : Cardinality(PlacesOf(all_terms[i])) = 1
        /\ \A i \in DOMAIN class_terms :
               SeqToSet(class_terms[i].terms) \subseteq SeqToSet(all_terms)
        /\ SeqToSet(general_terms) \subseteq SeqToSet(all_terms)

\* a run where the partitioner returned a class list and a general list
C1_Witness ==
    /\ pc = "separated"
    /\ class_terms # <<>>
    /\ general_terms # <<>>

\* the standalone word 'class', white space and the standalone letter x,
\* beginning at position p of the lowercased term t
ClassLetterAt(t, p, x) ==
    /\ p + 4 <= Len(t)
    /\ SubSeq(t, p, p + 4) = "class"
    /\ ~IsWordAt(t, p - 1)
    /\ \E q \in (p + 6)..Len(t) :
           /\ \A r \in (p + 5)..(q - 1) : Ch(t, r) \in SpaceChars
           /\ Ch(t, q) = x
           /\ ~IsWordAt(t, q + 1)

\* the letter of a..f of the leftmost such occurrence, "" when there is none
FirstClassLetter(t) ==
    LET ps == {p \in 1..Len(t) : \E y \in ClassLetters : ClassLetterAt(t, p, y)}
    IN IF ps = {} THEN ""
       ELSE CHOOSE y \in ClassLetters : ClassLetterAt(t, Min(ps), y)

UnderLetter(t, x) ==
    \E i \in DOMAIN class_terms :
        class_terms[i].letter = x /\ t \in SeqToSet(class_terms[i].terms)

Scenario1Partitions ==
    /\ class_terms = <<[letter |-> "a", terms |-> <<Scenario1[1], Scenario1[2]>>],
                       [letter |-> "b", terms |-> <<Scenario1[3]>>]>>
    /\ general_terms = <<>>

\* C10 as amended: a term is placed under the letter x exactly when x is the
\* letter, one of a..f in either case, of the term's leftmost occurrence of
\* the standalone word 'class', white space and a standalone letter of a..f;
\* a term without such an occurrence ('class ab', 'classa', 'subclass a',
\* 'class g x') goes to general; the keys are lowercase; and the three terms
\* of scenario 1 give a (2 terms), b (1 term) and an empty general list.
C10_IdentifierDetection ==
    pc = "separated" =>
        /\ \A i \in DOMAIN all_terms : \A x \in LowerLetters \cup UpperLetters :
               UnderLetter(all_terms[i], x) <=> FirstClassLetter(lower(all_terms[i])) = x
        /\ \A i \in DOMAIN all_terms :
               all_terms[i] \in SeqToSet(general_terms)
                   <=> FirstClassLetter(lower(all_terms[i])) = ""
        /\ all_terms = Scenario1 => Scenario1Partitions

\* a run where 'Class A notes' went under a and 'subclass a' to general
C10_Witness ==
    /\ pc = "separated"
    /\ UnderLetter("Class A notes", "a")
    /\ "subclass a" \in SeqToSet(general_terms)

\* C10 as stated: a term is placed under the letter x exactly when it
\* contains the standalone word 'class', white space and the standalone
\* letter x, in any letter case.
C10_AsStated ==
    pc = "separated" =>
        \A i \in DOMAIN all_terms : \A x \in LowerLetters :
            UnderLetter(all_terms[i], x)
                <=> \E p \in 1..Len(all_terms[i]) :
                        ClassLetterAt(lower(all_terms[i]), p, x)

\* the standalone word w, white space and the standalone letter x, beginning
\* at position p of the lowercased term t
IdentifierAt(w, t, p, x) ==
    /\ p + Len(w) - 1 <= Len(t)
    /\ SubSeq(t, p, p + Len(w) - 1) = w
    /\ ~IsWordAt(t, p - 1)
    /\ \E q \in (p + Len(w) + 1)..Len(t) :
           /\ \A r \in (p + Len(w))..(q - 1) : Ch(t, r) \in SpaceChars
           /\ Ch(t, q) = x
           /\ ~IsWordAt(t, q + 1)

\* the letters of a..f the lowercased term t shows after the word w
IdentifiersOf(w, t) ==
    {x \in ClassLetters : \E p \in 1..Len(t) : IdentifierAt(w, t, p, x)}

\* C11: every term that shows a letter of a..f after the standalone word
\* 'class' or after the standalone word 'tranche' is placed under a letter
\* it shows and is not in the general list.
C11_ClassOrTranche ==
    pc = "separated" =>
        \A i \in DOMAIN all_terms :
            LET ids == IdentifiersOf("class", lower(all_terms[i]))
                           \cup IdentifiersOf("tranche", lower(all_terms[i]))
            IN ids # {} =>
                   /\ all_terms[i] \notin SeqToSet(general_terms)
                   /\ \E x \in ids : UnderLetter(all_terms[i], x)

\* the number of input terms that show the class letter x
TermsShowing(x) ==
    Cardinality({i \in DOMAIN all_terms :
                    x \in IdentifiersOf("class", lower(all_terms[i]))})

\* C12: a term that shows more than one class letter is placed under the
\* one of its letters that the most input terms show, and a warning is
\* logged for it.
C12_MajorityIdentifier ==
    pc = "separated" =>
        \A i \in DOMAIN all_terms :
            LET ids == IdentifiersOf("class", lower(all_terms[i]))
            IN Cardinality(ids) > 1 =>
                   /\ \A x \in ids : UnderLetter(all_terms[i], x) =>
                          \A y \in ids : TermsShowing(y) <= TermsShowing(x)
                   /\ \E k \in DOMAIN log : log[k].level = "warning"

-----------------------------------------------------------------------------
(* Properties of the clustering stage                                      *)

\* the clusters a step of _class_aware_clustering adds
NewClusters == SubSeq(clusters', Len(clusters) + 1, Len(clusters'))

\* the partition a step of _class_aware_clustering is about to cluster
CurrentTerms ==
    IF next_class <= Len(class_terms) THEN class_terms[next_class].terms
    ELSE general_terms

CurrentGroup ==
    IF next_class <= Len(class_terms) THEN "class_" \o class_terms[next_class].letter
    ELSE "general"

CurrentClass ==
    IF next_class <= Len(class_terms) THEN class_terms[next_class].letter ELSE "None"

\* every term of terms is in exactly one list of cs, once, and nothing else is
Covers(cs, terms) ==
    /\ \A i \in DOMAIN terms :
           Cardinality({pl \in UNION {{c} \X DOMAIN cs[c].terms : c \in DOMAIN cs} :
                           cs[pl[1]].terms[pl[2]] = terms[i]}) = 1
    /\ \A c \in DOMAIN cs : SeqToSet(cs[c].terms) \subseteq SeqToSet(terms)

\* C2: the clusters _class_aware_clustering adds for a partition (through the
\* single-term class branch, or through _cluster_similar_terms by its
\* shortcut, its k-means path or its exception fallback) hold every term of
\* that partition exactly once: none is lost, none is in two clusters.
C2_ClusterCoverage ==
    [][pc = "class_aware" => Covers(NewClusters, CurrentTerms)]_vars

\* a finished clustering with a cluster of two terms and clusters of a class
C2_Witness ==
    /\ pc = "clustered"
    /\ \E c \in DOMAIN clusters : clusters[c].count >= 2
    /\ \E c \in DOMAIN clusters : clusters[c].class \in ClassLetters
    /\ \E c \in DOMAIN clusters : clusters[c].class = "None"

\* what scikit-learn raising an exception is for a partition
Raising == [raises |-> TRUE, labels |-> <<>>, top |-> "none"]

SingletonsOfCurrent == WithClass(SingletonClusters(CurrentTerms), CurrentClass)

\* C9: when scikit-learn raises for a partition, _cluster_similar_terms
\* returns one singleton cluster per term of the partition and logs one
\* warning; the step that logs the warning leaves the clusters of the earlier
\* partitions as they were, numbers the new clusters on from them, and the
\* clustering goes on.
C9_FailureRecoverable ==
    [][pc = "class_aware" =>
        /\ Len(CurrentTerms) > 2 =>
               _cluster_similar_terms(CurrentTerms, CurrentGroup, Raising)
                   = [clusters |-> SingletonClusters(CurrentTerms),
                      logged |-> <<FailedToCluster(CurrentGroup)>>]
        /\ log' # log =>
               /\ log' = Append(log, FailedToCluster(CurrentGroup))
               /\ clusters' = clusters \o SingletonsOfCurrent
               /\ cluster_id = Len(clusters)
               /\ cluster_id' = Len(clusters')
               /\ pc' \in {"class_aware", "clustered"}]_vars

\* a finished clustering in which a partition fell back to singletons after
\* another partition was clustered
C9_Witness ==
    /\ pc = "clustered"
    /\ \E i \in DOMAIN log : log[i].level = "warning"
    /\ \E c \in DOMAIN clusters : clusters[c].class \in ClassLetters
    /\ \E c \in DOMAIN clusters : clusters[c].class = "None"

\* C8: an input of fewer than two unique terms gives one singleton cluster
\* per unique term, and process_files never leaves by 'Clustering failed'.
C8_DegenerateInput ==
    Len(unique_terms_of(all_terms)) < 2 =>
        /\ pc = "clustered" => clusters = SingletonClusters(unique_terms_of(all_terms))
        /\ \A i \in DOMAIN log : log[i].msg # "Clustering failed"

GroupOf(x) ==
    {t \in SeqToSet(all_terms) : FirstClassLetter(lower(t)) = x}

GroupName(x) == IF x = "" THEN "general" ELSE "class_" \o x

\* the clusters holding a term of G
ClustersOf(G) == {c \in DOMAIN clusters : SeqToSet(clusters[c].terms) \cap G # {}}

C17_ClustersCarryPartition ==
    pc = "clustered" =>
        \A c \in DOMAIN clusters :
            \/ /\ clusters[c].class \in ClassLetters
               /\ \A j \in DOMAIN clusters[c].terms :
                      FirstClassLetter(lower(clusters[c].terms[j])) = clusters[c].class
            \/ /\ clusters[c].class = "None"
               /\ \A j \in DOMAIN clusters[c].terms :
                      FirstClassLetter(lower(clusters[c].terms[j])) = ""

\* the place of a cluster's partition in the order of creation: the class
\* partitions as first seen, then the general partition
PartitionPlace(class) ==
    IF class = "None" THEN Len(class_terms) + 1 ELSE IndexOfLetter(class_terms, class)

\* the position in the unique terms of the first term of the i-th partition
FirstSeen(i) ==
    Min({k \in DOMAIN unique_terms_of(all_terms) :
            unique_terms_of(all_terms)[k] = class_terms[i].terms[1]})

CreationOrder ==
    /\ \A c1, c2 \in DOMAIN clusters :
           c1 < c2 => PartitionPlace(clusters[c1].class) <= PartitionPlace(clusters[c2].class)
    /\ \A i, j \in DOMAIN class_terms : i < j => FirstSeen(i) < FirstSeen(j)

\* C18: _class_aware_clustering gives the clusters the ids 0, 1, 2, ... in
\* the order it creates them: at every step the next id is the number of
\* clusters made so far, the clusters made earlier keep their ids, the new
\* ones belong to the partition of the step, also when the partition fell
\* back to singletons; and the partitions come in the order class letters
\* as first seen, then general.
C18_SequentialIds ==
    [][pc = "class_aware" =>
          /\ cluster_id = Len(clusters)
          /\ cluster_id' = Len(clusters')
          /\ SubSeq(clusters', 1, Len(clusters)) = clusters
          /\ \A c \in DOMAIN NewClusters : NewClusters[c].class = CurrentClass
          /\ CreationOrder']_vars

\* a finished clustering of two class partitions, the second of which fell
\* back to three singleton clusters
C18_Witness ==
    /\ pc = "clustered"
    /\ Len(class_terms) >= 2
    /\ Len(clusters) = 4
    /\ cluster_id = 4
    /\ clusters[1].class # clusters[2].class
    /\ \E k \in DOMAIN log : log[k].level = "warning"

\* max(2, n // 2) for a class partition, max(2, n // 3) for the general one,
\* capped at n
RequestedK ==
    LET n == Len(CurrentTerms)
        d == IF next_class <= Len(class_terms) THEN 2 ELSE 3
    IN Min2(n, Max2(2, n \div d))

\* C14 as amended: for a partition of n >= 3 terms the k requested of
\* k-means is max(2, n // 2) for a class partition and max(2, n // 3) for the
\* general one, capped at n, so 2 <= k <= n; and when scikit-learn does not
\* raise, the partition comes back in at least 1 and at most k clusters.
C14_ClusterCount ==
    [][pc = "class_aware" /\ Len(CurrentTerms) >= 3 =>
          /\ n_clusters_of(CurrentTerms, CurrentGroup) = RequestedK
          /\ 2 <= RequestedK /\ RequestedK <= Len(CurrentTerms)
          /\ log' = log =>
                 1 <= Len(NewClusters) /\ Len(NewClusters) <= RequestedK]_vars

\* a class partition of six terms that came back in three clusters
C14_Witness ==
    /\ pc = "clustered"
    /\ \E i \in DOMAIN class_terms : Len(class_terms[i].terms) = 6
    /\ Cardinality({c \in DOMAIN clusters : clusters[c].class = "a"}) = 3

\* C14 as stated: a partition of n >= 3 terms always comes back in at least
\* 1 and at most k clusters, k being max(2, n // 2) or max(2, n // 3), capped
\* at n.
C14_AsStated ==
    [][pc = "class_aware" /\ Len(CurrentTerms) >= 3 =>
          /\ 2 <= RequestedK /\ RequestedK <= Len(CurrentTerms)
          /\ 1 <= Len(NewClusters) /\ Len(NewClusters) <= RequestedK]_vars

-----------------------------------------------------------------------------
(* Properties of the names and the mappings                                *)

\* non-empty, of the characters [a-z0-9_], no underscore first or last, no
\* two underscores in a row
WellFormedName(n) ==
    /\ n # ""
    /\ \A i \in 1..Len(n) : Ch(n, i) \in LowerLetters \cup Digits \cup {"_"}
    /\ Ch(n, 1) # "_"
    /\ Ch(n, Len(n)) # "_"
    /\ ~contains(n, "__")

\* C4: every name generate_canonical_names stores is well-formed.
C4_WellFormedNames ==
    pc \in {"named", "mapped"} =>
        \A c \in DOMAIN canonical_names : WellFormedName(canonical_names[c])

\* the score of the j-th term of the c-th cluster against the cluster's name
ScoreOf(c, j) ==
    _calculate_term_confidence(clusters[c].terms[j], canonical_names[c], clusters[c])

\* the mappings of the j-th term of the c-th cluster
MappingsFor(c, j) ==
    {i \in DOMAIN mappings :
        /\ mappings[i].original_term = clusters[c].terms[j]
        /\ mappings[i].cluster_id = c - 1}

\* C5: every mapping create_mappings returns has a score of at least the
\* configured threshold, and a term whose score against its cluster's name
\* is below the threshold has no mapping.
C5_ThresholdFiltering ==
    pc = "mapped" =>
        /\ \A i \in DOMAIN mappings : mappings[i].fuzzy_score >= Pts(fuzzy_threshold)
        /\ \A c \in DOMAIN clusters : \A j \in DOMAIN clusters[c].terms :
               ScoreOf(c, j) < Pts(fuzzy_threshold) => MappingsFor(c, j) = {}

\* a run that kept the mapping of one term and dropped that of another
C5_Witness ==
    /\ pc = "mapped"
    /\ mappings # <<>>
    /\ \E i \in DOMAIN log : log[i].msg = "excluded"

\* C6: a mapping's tier is very_high from 95, high from 85 to below 95,
\* medium from the threshold to below 85, and never low, whatever the
\* configured threshold.
C6_TierClassification ==
    pc = "mapped" =>
        \A i \in DOMAIN mappings :
            LET score == mappings[i].fuzzy_score
                tier == mappings[i].confidence
            IN /\ score >= Pts(95) => tier = "very_high"
               /\ score >= Pts(85) /\ score < Pts(95) => tier = "high"
               /\ score >= Pts(fuzzy_threshold) /\ score < Pts(85) => tier = "medium"
               /\ tier # "low"

\* a run that returned a medium, a high and a very_high mapping
C6_Witness ==
    /\ pc = "mapped"
    /\ \E i \in DOMAIN mappings : mappings[i].confidence = "medium"
    /\ \E i \in DOMAIN mappings : mappings[i].confidence = "high"
    /\ \E i \in DOMAIN mappings : mappings[i].confidence = "very_high"

\* C7: a term that equals its cluster's name with the underscores replaced
\* by spaces scores 100 and is mapped with the tier very_high.
C7_ExactMatchScores100 ==
    pc = "mapped" =>
        \A c \in DOMAIN clusters : \A j \in DOMAIN clusters[c].terms :
            clusters[c].terms[j] = replace_char(canonical_names[c], "_", " ") =>
                /\ ScoreOf(c, j) = Pts(100)
                /\ \E i \in MappingsFor(c, j) : mappings[i].confidence = "very_high"

\* the whole words the term and the name have in common
OverlappingWords(term, name) ==
    SeqToSet(split(lower(term))) \cap SeqToSet(split_on(name, "_"))

OverlapBonus(term, name) == Min2(Pts(20), Pts(10) * Cardinality(OverlappingWords(term, name)))

SubstringBonus(term, name) ==
    IF contains(lower(term), replace_char(name, "_", " ")) THEN Pts(15) ELSE 0

TopFeatureBonus(term, cluster_data) ==
    IF /\ Len(cluster_data.terms) > 3
       /\ \E w \in SeqToSet(split(lower(term))) :
              \E k \in DOMAIN cluster_data.top_features : cluster_data.top_features[k] = w
    THEN Pts(10) ELSE 0

ComposedOf(base, term, name, cluster_data) ==
    Min2(Pts(100), base + OverlapBonus(term, name) + SubstringBonus(term, name)
                        + TopFeatureBonus(term, cluster_data))

\* C27: the confidence of every term against the name of its cluster is
\* min(100, base + min(20, 10 per overlapping whole word) + 15 if the name
\* with its underscores replaced by spaces is part of the lowercased term
\* + 10 if the cluster has more than 3 members and a word of the term is
\* among its top features), base being the weighted ratio of the lowercased
\* term and the name; it lies in 0..100, and it is the score of the term's
\* mapping.
C27_ScoreComposition ==
    pc = "mapped" =>
        \A c \in DOMAIN clusters : \A j \in DOMAIN clusters[c].terms :
            LET Composed(score, base) ==
                    /\ base >= 0 /\ base <= Pts(100)
                    /\ score = ComposedOf(base, clusters[c].terms[j], canonical_names[c],
                                          clusters[c])
                    /\ score >= 0 /\ score <= Pts(100)
                    /\ \A i \in MappingsFor(c, j) : mappings[i].fuzzy_score = score
            IN Composed(ScoreOf(c, j),
                        WRatio(lower(clusters[c].terms[j]), lower(canonical_names[c])))

\* a term of a cluster of four whose score is its base score and the three
\* bonuses, below 100, next to a term whose score the cap of 100 cuts
C27_Witness ==
    /\ pc = "mapped"
    /\ \E c \in DOMAIN clusters : \E j, k \in DOMAIN clusters[c].terms :
           /\ Len(clusters[c].terms) > 3
           /\ TopFeatureBonus(clusters[c].terms[j], clusters[c]) = Pts(10)
           /\ OverlapBonus(clusters[c].terms[j], canonical_names[c]) > 0
           /\ ScoreOf(c, j) < Pts(100)
           /\ ScoreOf(c, k) = Pts(100)
           /\ WRatio(lower(clusters[c].terms[k]), lower(canonical_names[c])) < Pts(100)

\* the clusters that contain the term
ClustersContaining(term) ==
    {c \in DOMAIN clusters : \E j \in DOMAIN clusters[c].terms : clusters[c].terms[j] = term}

\* a step of the namer or of the scorer
AfterClustering ==
    pc \in {"clustered", "named"} =>
        /\ clusters' = clusters
        /\ cluster_id' = cluster_id
        /\ (pc = "named" => canonical_names' = canonical_names)
        /\ (pc' = "mapped" =>
               \A i \in DOMAIN mappings' :
                   /\ ClustersContaining(mappings'[i].original_term)
                          = {mappings'[i].cluster_id + 1}
                   /\ mappings'[i].canonical_name
                          = canonical_names[mappings'[i].cluster_id + 1])

\* C28: once cluster_terms has returned, generate_canonical_names and
\* create_mappings leave every cluster as it is (its terms, count, class
\* and id), create_mappings leaves the names as they are, and every
\* mapping carries the id and the name of the cluster that contains its
\* term.
C28_MembershipImmutable == [][AfterClustering]_vars

\* a finished run with mappings to two different names, one of which came
\* from the repair chain
C28_Witness ==
    /\ pc = "mapped"
    /\ \E i, k \in DOMAIN mappings :
           /\ mappings[i].canonical_name # mappings[k].canonical_name
           /\ mappings[i].canonical_name
                  # _generate_single_canonical_name(clusters[mappings[i].cluster_id + 1].terms)
           /\ Len(clusters[mappings[k].cluster_id + 1].terms) > 1

-----------------------------------------------------------------------------
(* Properties of the override pass                                         *)

\* the names of the clusters before the override pass
PreNames == [c \in DOMAIN clusters |-> FilteredName(clusters[c].terms)]

\* a rejected, low-priority or junk name
RejectedName(n) ==
    \/ startswith(n, "excluded_")
    \/ startswith(n, "low_priority_")
    \/ n \in junk_canonical_names

\* the text of cluster c matches the j-th essential pattern
MatchesEssential(j, c) ==
    \E r \in DOMAIN essential_patterns[j].pats :
        re_search(essential_patterns[j].pats[r], AllText(clusters[c].terms))

\* the essential patterns cluster c matches and no cluster visited before it
\* matched; the pass does not visit a cluster whose name begins with class_
FreshPatterns(pre, c) ==
    {j \in DOMAIN essential_patterns :
        /\ MatchesEssential(j, c)
        /\ \A b \in 1..(c - 1) : startswith(pre[b], "class_") \/ ~MatchesEssential(j, b)}

\* the essential name of pattern j for cluster c, with its class prefix
EssentialNameFor(j, c) ==
    LET Prefixed(all_text) ==
            IF re_search(namer_class_pattern, all_text)
            THEN "class_" \o group1(namer_class_pattern, all_text) \o "_"
                     \o essential_patterns[j].name
            ELSE essential_patterns[j].name
    IN Prefixed(AllText(clusters[c].terms))

OverrideOfFresh(pre) ==
    \A c \in DOMAIN clusters :
        RejectedName(pre[c]) /\ FreshPatterns(pre, c) # {} =>
            canonical_names[c] = EssentialNameFor(Max(FreshPatterns(pre, c)), c)

\* C15 as amended: a cluster whose name before the pass is excluded_*,
\* low_priority_* or a generic junk word, and whose text matches an essential
\* pattern that the text of no cluster visited before it matched, ends with
\* that pattern's essential name (the last such pattern of the table when
\* there are several), prefixed with class_<letter>_ when the text carries a
\* class letter; so low_priority_fund_x with the text 'reserve fund x' ends as
\* reserve_fund, and as class_a_reserve_fund with 'class a reserve fund x'.
C15_EssentialOverride ==
    /\ pc = "named" => OverrideOfFresh(PreNames)
    /\ _ensure_essential_financial_terms(
           <<[terms |-> <<"reserve fund x">>]>>, <<"low_priority_fund_x">>).names
           = <<"reserve_fund">>
    /\ _ensure_essential_financial_terms(
           <<[terms |-> <<"class a reserve fund x">>]>>, <<"low_priority_fund_x">>).names
           = <<"class_a_reserve_fund">>

WitnessOfOverride(pre) ==
    /\ \E c \in DOMAIN clusters :
           /\ RejectedName(pre[c])
           /\ FreshPatterns(pre, c) # {}
           /\ canonical_names[c] # pre[c]
    /\ \E c \in DOMAIN clusters :
           /\ RejectedName(pre[c])
           /\ \E j \in DOMAIN essential_patterns : MatchesEssential(j, c)
           /\ FreshPatterns(pre, c) = {}

\* a run that overwrote the name of one cluster and had a second rejected
\* name whose pattern the first had taken
C15_Witness == pc = "named" /\ WitnessOfOverride(PreNames)

OverrideOfEvery(pre) ==
    \A c \in DOMAIN clusters :
        RejectedName(pre[c]) /\ (\E j \in DOMAIN essential_patterns : MatchesEssential(j, c)) =>
            \E j \in DOMAIN essential_patterns :
                MatchesEssential(j, c) /\ canonical_names[c] = EssentialNameFor(j, c)

\* C15 as stated: every cluster whose name before the pass is excluded_*,
\* low_priority_* or a generic junk word, and whose text matches an essential
\* pattern, ends with the essential name of a pattern it matches.
C15_AsStated == pc = "named" => OverrideOfEvery(PreNames)

\* the names the pass can give for the j-th essential pattern
NamesOfPattern(j) ==
    {essential_patterns[j].name}
        \cup {"class_" \o x \o "_" \o essential_patterns[j].name : x \in ClassLetters}

\* the entries the pass logged for the j-th essential pattern
EnhancementsOf(j) ==
    {k \in DOMAIN log : log[k].msg = "Enhanced cluster" /\ log[k].what \in NamesOfPattern(j)}

FiresOnceFirstWins(pre) ==
    /\ \A j \in DOMAIN essential_patterns : Cardinality(EnhancementsOf(j)) <= 1
    /\ \A c \in DOMAIN clusters :
           canonical_names[c] # pre[c] =>
               \E j \in DOMAIN essential_patterns :
                   /\ canonical_names[c] = EssentialNameFor(j, c)
                   /\ RejectedName(pre[c])
                   /\ MatchesEssential(j, c)
                   /\ \A b \in 1..(c - 1) :
                          ~(RejectedName(pre[b]) /\ MatchesEssential(j, b))
                   /\ \A d \in DOMAIN clusters \ {c} :
                          canonical_names[d] # pre[d] =>
                              canonical_names[d] \notin NamesOfPattern(j)

\* C25: in one run of the override pass every essential pattern overwrites
\* the name of at most one cluster, and a cluster whose name a pattern has
\* overwritten is the first, in the order of the cluster ids, that has an
\* excluded_*, low_priority_* or junk name and a text matching the pattern.
C25_FiresOnceFirstWins == pc = "named" => FiresOnceFirstWins(PreNames)

OverwrittenOnce(pre) ==
    \E j \in DOMAIN essential_patterns :
        \E c, d \in DOMAIN clusters :
            /\ c < d
            /\ canonical_names[c] = EssentialNameFor(j, c)
            /\ canonical_names[c] # pre[c]
            /\ RejectedName(pre[d])
            /\ MatchesEssential(j, d)
            /\ canonical_names[d] = pre[d]

\* two clusters with rejected names match the same pattern: the first has
\* the pattern's name, the second keeps the name it had
C25_Witness == pc = "named" /\ OverwrittenOnce(PreNames)

FrameOfOverride(pre) ==
    /\ DOMAIN canonical_names = DOMAIN clusters
    /\ \A c \in DOMAIN clusters :
           (startswith(pre[c], "class_") \/ ~RejectedName(pre[c])) =>
               canonical_names[c] = pre[c]

\* C26: the override pass leaves the name of a cluster as it was when the
\* name begins with class_, and when it is neither excluded_*, nor
\* low_priority_*, nor a generic junk word, also when the text of the
\* cluster matches an essential pattern; the names it returns are those of
\* the same cluster ids.
C26_OverrideFrame == pc = "named" => FrameOfOverride(PreNames)

KeptNextToOverride(pre) ==
    \E a, b, c \in DOMAIN clusters :
        /\ startswith(pre[a], "class_")
        /\ \E j \in DOMAIN essential_patterns : MatchesEssential(j, a)
        /\ canonical_names[a] = pre[a]
        /\ ~startswith(pre[b], "class_")
        /\ ~RejectedName(pre[b])
        /\ \E j \in DOMAIN essential_patterns :
               MatchesEssential(j, b) /\ pre[b] # EssentialNameFor(j, b)
        /\ canonical_names[b] = pre[b]
        /\ canonical_names[c] # pre[c]

\* a run that overwrote one name and kept a class_ name and a proper name
\* whose clusters match essential patterns
C26_Witness == pc = "named" /\ KeptNextToOverride(PreNames)

-----------------------------------------------------------------------------
(* Properties of the naming rules                                          *)

\* C16: no cluster ends with a bare generic word as its name, and the
\* cluster whose only member is 'total' ends with excluded_generic_total or
\* with a low_priority_ name.
C16_JunkNeverBare ==
    pc = "named" =>
        \A c \in DOMAIN clusters :
            /\ canonical_names[c] \notin always_junk
            /\ clusters[c].terms = <<"total">> =>
                   \/ canonical_names[c] = "excluded_generic_total"
                   \/ startswith(canonical_names[c], "low_priority_")

\* the direct patterns the text of cluster c matches
DirectHits(c) ==
    {j \in DOMAIN direct_financial_patterns :
        re_search(direct_financial_patterns[j].pat, AllText(clusters[c].terms))}

\* C19: a cluster whose text matches a direct pattern is named with the
\* fixed name of the first pattern of the table that it matches, and
\* nothing of the later stages; the members 'servicing fee', 'servicer fee',
\* 'service fee' give servicing_fee.
C19_DirectPatternPrecedence ==
    pc = "named" =>
        \A c \in DOMAIN clusters :
            /\ DirectHits(c) # {} =>
                   canonical_names[c] = direct_financial_patterns[Min(DirectHits(c))].name
            /\ clusters[c].terms = <<"servicing fee", "servicer fee", "service fee">> =>
                   canonical_names[c] = "servicing_fee"

\* a run in which k-means put the three fee terms in one cluster, which was
\* named servicing_fee
C19_Witness ==
    /\ pc = "named"
    /\ \E c \in DOMAIN clusters :
           /\ clusters[c].terms = <<"servicing fee", "servicer fee", "service fee">>
           /\ canonical_names[c] = "servicing_fee"

\* the components of cluster c joined in the order identifier, instrument,
\* amount type, action, concept, temporal; "" when there is none
ComponentsJoin(c) ==
    LET Joined(k) ==
            join((IF k.class # "" THEN <<"class_" \o k.class>>
                  ELSE IF k.tranche # "" THEN <<"tranche_" \o k.tranche>> ELSE <<>>)
                 \o (IF k.instrument # "" THEN <<k.instrument>> ELSE <<>>)
                 \o (IF k.amount_type # "" THEN <<k.amount_type>> ELSE <<>>)
                 \o (IF k.action # "" THEN <<k.action>> ELSE <<>>)
                 \o (IF k.concept # "" THEN <<k.concept>> ELSE <<>>)
                 \o (IF k.temporal # "" THEN <<k.temporal>> ELSE <<>>), "_")
    IN Joined(_extract_concept_components(clusters[c].terms))

\* C20 as amended: when no direct pattern matches and a component is found,
\* the assembled name is the join of the present components in the order
\* identifier, instrument, amount type, action, concept, temporal; it is the
\* cluster's name when it is at most 50 characters long and the junk filter
\* accepts it.
C20_ComponentAssembly ==
    pc = "named" =>
        \A c \in DOMAIN clusters :
            LET NamedByJoin(j) ==
                    j # "" /\ Len(j) <= 50 /\ ~_is_junk_canonical_name(j) =>
                        canonical_names[c] = j
            IN NamedByJoin(ComponentsJoin(c))

\* a run that assembled action, concept and temporal components in the
\* fixed order
C20_Witness ==
    /\ pc = "named"
    /\ \E c \in DOMAIN clusters :
           /\ clusters[c].terms = <<"accrued interest rate">>
           /\ canonical_names[c] = "interest_accrued_rate"
    /\ \E c \in DOMAIN clusters :
           /\ clusters[c].terms = <<"beginning pool balance">>
           /\ canonical_names[c] = "balance_beginning"

\* C20 as stated: when no direct pattern matches and a component is found,
\* the cluster's name is the join of the present components, unless the
\* junk filter rejects that join.
C20_AsStated ==
    pc = "named" =>
        \A c \in DOMAIN clusters :
            LET NamedByJoin(j) ==
                    j # "" /\ ~_is_junk_canonical_name(j) => canonical_names[c] = j
            IN NamedByJoin(ComponentsJoin(c))

-----------------------------------------------------------------------------
(* Properties of the components and of the fallbacks of the namer          *)

\* the instrument _extract_concept_components finds for the terms of a cluster
InstrumentOf(terms) == _extract_concept_components(terms).instrument

PrincipalCount(terms) == FindallCount(PhraseB(<<"principal">>), AllText(terms))

InterestCount(terms) == FindallCount(PhraseB(<<"interest">>), AllText(terms))

\* x occurs more often than y in the text of the terms, or as often and
\* in more of the terms
MoreFrequent(terms, x_count, y_count, x, y) ==
    \/ x_count > y_count
    \/ /\ x_count = y_count
       /\ x_count > 0
       /\ TermsContaining(terms, x) > TermsContaining(terms, y)

AbstainsOnTie(terms, instrument, principal_count, interest_count) ==
    /\ instrument = "principal" =>
           MoreFrequent(terms, principal_count, interest_count, "principal", "interest")
    /\ instrument = "interest" =>
           MoreFrequent(terms, interest_count, principal_count, "interest", "principal")
    /\ (/\ principal_count = interest_count
        /\ TermsContaining(terms, "principal") = TermsContaining(terms, "interest"))
           => instrument \notin {"principal", "interest"}

NoComponents(c) ==
    LET None(k) ==
            /\ k.direct = "" /\ k.class = "" /\ k.tranche = "" /\ k.instrument = ""
            /\ k.amount_type = "" /\ k.action = "" /\ k.concept = "" /\ k.temporal = ""
    IN None(_extract_concept_components(clusters[c].terms))

\* the score of a word: that of the static table, 30 for any other word
PriorityScore(w) == IF word_priority(w) > 0 THEN word_priority(w) ELSE 30

\* the words of more than two characters that occur, over all member terms
\* of the cluster, at least max(1, 30% of the number of terms) times, and
\* score at least lo
QualifyingWords(c, lo) ==
    LET Among(occurrences) ==
            {w \in SeqToSet(occurrences) :
                /\ 10 * CountOf(occurrences, w) >= 3 * Len(clusters[c].terms)
                /\ PriorityScore(w) >= lo}
    IN Among(LongWordsOf(clusters[c].terms))

BuiltName(c) ==
    _build_from_common_words(_find_common_words(clusters[c].terms), clusters[c].terms)

\* the name is made of the words that qualify, in the order of their scores,
\* all of those that score 110 or more and then others up to four words
FromCommonWords(c, name, words) ==
    /\ canonical_names[c] = name
    /\ \A j \in DOMAIN words : words[j] \in QualifyingWords(c, 40)
    /\ \A j, k \in DOMAIN words :
           j < k => words[j] # words[k] /\ PriorityScore(words[j]) >= PriorityScore(words[k])
    /\ QualifyingWords(c, 110) \subseteq SeqToSet(words)
    /\ Len(words) = Min({Cardinality(QualifyingWords(c, 40)),
                         Max({4, Cardinality(QualifyingWords(c, 110))})})

TermScore(term) ==
    Max({0, 50 - Len(term)})
    + 20 * Cardinality({k \in {"class", "interest", "balance", "fee", "payment",
                                "amount", "account", "date"} : contains(lower(term), k)})
    - (IF Len(term) > 80 THEN 30 ELSE 0)
    - (IF Len(split(term)) > 8 THEN 3 * Len(split(term)) ELSE 0)

\* the first member term, in member order, with the highest score
BestTerm(terms) ==
    terms[Min({i \in DOMAIN terms :
                  \A j \in DOMAIN terms : TermScore(terms[i]) >= TermScore(terms[j])})]

\* the namer has neither a component nor a common word scoring 40 for the
\* cluster, or its assembled name is too long
TakesBestTerm(c) ==
    \/ NoComponents(c) /\ QualifyingWords(c, 40) = {}
    \/ Len(_identify_core_concept(clusters[c].terms,
                                  _find_common_words(clusters[c].terms))) > MaxNameLen

\* C23: _select_best_term returns the member term with the highest score
\* max(0, 50 - length) + 20 per financial keyword contained - 30 if longer
\* than 80 characters - 3 * word count if more than 8 words, the first such
\* term in member order on a tie; when the namer falls back to the best
\* term, that term, cleaned, is the name of the cluster if it passes the
\* junk filter.
C23_BestTermFallback ==
    pc = "named" =>
        \A c \in DOMAIN clusters :
            LET Selected(best) ==
                    /\ _select_best_term(clusters[c].terms) = best
                    /\ (TakesBestTerm(c) /\ ~_is_junk_canonical_name(_clean_canonical_name(best)))
                           => canonical_names[c] = _clean_canonical_name(best)
            IN Selected(BestTerm(clusters[c].terms))

\* a cluster of two terms with the same score, named after the first, and
\* a cluster of two terms that both have a penalty
C23_Witness ==
    /\ pc = "named"
    /\ \E c, d \in DOMAIN clusters :
           /\ clusters[c].terms = <<"recoveries", "chargeoffs">>
           /\ TakesBestTerm(c)
           /\ canonical_names[c] = "recoveries"
           /\ Len(clusters[d].terms) = 2
           /\ TermScore(clusters[d].terms[1]) = 0 - 30
           /\ TermScore(clusters[d].terms[2]) = 0 - 72
           /\ TakesBestTerm(d)
           /\ canonical_names[d] = _clean_canonical_name(clusters[d].terms[1])

\* the name begins with class_<letter> or tranche_<letter>
HasIdentifierPrefix(name) ==
    \E x \in ClassLetters :
        \/ name = "class_" \o x
        \/ name = "tranche_" \o x
        \/ startswith(name, "class_" \o x \o "_")
        \/ startswith(name, "tranche_" \o x \o "_")

\* C24: a generated name that begins with class_<letter> or
\* tranche_<letter> is not rejected by the junk filter, whatever follows
\* the prefix, and stays the name of its cluster.
C24_IdentifierPrefixNeverJunk ==
    pc = "named" =>
        \A c \in DOMAIN clusters :
            LET Kept(name) ==
                    HasIdentifierPrefix(name) =>
                        /\ ~_is_junk_canonical_name(name)
                        /\ canonical_names[c] = name
            IN Kept(_generate_single_canonical_name(clusters[c].terms))

\* C29: a cluster that _class_aware_clustering made has a name beginning
\* with class_<letter> only if it belongs to the partition of that letter;
\* a cluster of the general partition has no such name.
C29_NamerAgreesWithPartitioner ==
    pc = "named" =>
        \A c \in DOMAIN clusters : \A x \in ClassLetters :
            (/\ clusters[c].class # "absent"
             /\ \/ canonical_names[c] = "class_" \o x
                \/ startswith(canonical_names[c], "class_" \o x \o "_"))
                => clusters[c].class = x

\* C30: when the junk filter rejects the generated name of a cluster, the
\* name the cluster ends with begins with excluded_generic_ or
\* low_priority_, or is a name the junk filter does not reject.
C30_RepairClosesJunkFilter ==
    pc = "named" =>
        \A c \in DOMAIN clusters :
            _is_junk_canonical_name(_generate_single_canonical_name(clusters[c].terms)) =>
                \/ startswith(canonical_names[c], "excluded_generic_")
                \/ startswith(canonical_names[c], "low_priority_")
                \/ ~_is_junk_canonical_name(canonical_names[c])

====
